---- MODULE Spec2Model ----
(***************************************************************************)
(* The gossip store of libopenstorage/gossip (proto/gossip_store.go):      *)
(* GossipStoreImpl with its nodeMap, clusterSize and failureDomainsMap,    *)
(* and the operations that mutate them.  Every operation runs under the    *)
(* store mutex, so each is one atomic action.                              *)
(***************************************************************************)
EXTENDS Integers, FiniteSets, Sequences, TLC

\* Bounds of the model.
MaxTime == 2
MaxOps == 2
NumThreads == 2

\* Identities, labels and payloads the operations are called with.
selfId == "A"
NodeIds == {"A", "B"}
Domains == {"d1", "d2"}
selfClusterDomain == "d1"
StoreKeys == {"k", "j"}
StoreVals == {7, 8}

NODE_STATUS_INVALID == "INVALID"
NODE_STATUS_NEVER_GOSSIPED == "NEVER_GOSSIPED"
NODE_STATUS_NOT_IN_QUORUM == "NOT_IN_QUORUM"
NODE_STATUS_UP == "UP"
NODE_STATUS_DOWN == "DOWN"

\* Statuses the membership layer hands to AddNode / UpdateNodeStatus.
CallStatuses == {NODE_STATUS_UP, NODE_STATUS_NEVER_GOSSIPED}

VARIABLES nodeMap, clusterSize, failureDomainsMap, selfCorrect, lostQuorumTs,
          now, panicked, nOps, last, pre, selfTsHigh, snap, pc, holder, api

vars == <<nodeMap, clusterSize, failureDomainsMap, selfCorrect, lostQuorumTs,
          now, panicked, nOps, last, pre, selfTsHigh, snap, pc, holder,
          api>>

\* The store's contents; pre holds those the last operation started from.
Store ==
    [nodeMap |-> nodeMap, clusterSize |-> clusterSize,
     failureDomainsMap |-> failureDomainsMap, lostQuorumTs |-> lostQuorumTs]

\* A StoreMap: a Go map is nil or a (possibly empty) mapping.
NilValue == [isNil |-> TRUE, kv |-> <<>>]
EmptyValue == [isNil |-> FALSE, kv |-> <<>>]

\* time.Time{}: the zero time, before every reading of the clock.
ZeroTime == 0

\* The zero value of types.NodeInfo, what a failed map lookup yields.
ZeroNodeInfo ==
    [Id |-> "", GenNumber |-> 0, LastUpdateTs |-> ZeroTime,
     WaitForGenUpdateTs |-> ZeroTime, Status |-> NODE_STATUS_INVALID,
     Value |-> NilValue, QuorumMember |-> FALSE, ClusterDomain |-> "",
     Addr |-> ""]

\* nodeInfo, _ := s.nodeMap[id]
Lookup(nm, id) == IF id \in DOMAIN nm THEN nm[id] ELSE ZeroNodeInfo

\* s.nodeMap[id] = nodeInfo
Put(nm, id, info) ==
    [x \in (DOMAIN nm) \cup {id} |-> IF x = id THEN info ELSE nm[x]]

\* time.Time.Before
Before(t, u) == t < u

statusValid(s) ==
    s # NODE_STATUS_INVALID /\ s # NODE_STATUS_NEVER_GOSSIPED

\* What the last operation was and what it was called with.
NoCall ==
    [op |-> "InitStore", id |-> "", arg |-> "", val |-> 0, diff |-> <<>>,
     peers |-> <<>>, ok |-> TRUE, qmm |-> <<>>, ret |-> "", obj |-> <<>>,
     bytes |-> <<>>]

Called(op, id, ok) == [NoCall EXCEPT !.op = op, !.id = id, !.ok = ok]

\* No snapshot has been handed out.
NoSnapshot ==
    [taken |-> FALSE, map |-> <<>>, orig |-> <<>>, shared |-> {},
     touched |-> FALSE]

\* No thread is inside an operation and no lock is held.
Threads == 1..NumThreads
IdleThreads == [t \in Threads |-> [op |-> "idle", i |-> 0]]
FreeLocks == [l \in {"storeLock", "failureDomainsMapLock"} |-> 0]

\* The REST route set-up before SetupRoutesWithAuth is called: where the
\* call stands, its local routeMap, the keys its last loop has still to
\* visit, and the registrations made on the router.
NoRouter == [step |-> "idle", i |-> 1, routeMap |-> <<>>, rest |-> {},
             router |-> <<>>]

Init ==
    /\ now \in 1..MaxTime
    /\ nodeMap = [x \in {selfId} |->
                    [Id |-> selfId, GenNumber |-> 0,
                     LastUpdateTs |-> now, WaitForGenUpdateTs |-> ZeroTime,
                     Status |-> NODE_STATUS_NOT_IN_QUORUM,
                     Value |-> EmptyValue, QuorumMember |-> FALSE,
                     ClusterDomain |-> selfClusterDomain, Addr |-> ""]]
    /\ clusterSize = 0
    /\ failureDomainsMap = <<>>
    /\ selfCorrect = FALSE
    /\ panicked = FALSE
    /\ nOps = 0
    /\ lostQuorumTs = ZeroTime
    /\ last = NoCall
    /\ pre = Store
    /\ selfTsHigh = now
    /\ snap = NoSnapshot
    /\ pc = IdleThreads
    /\ holder = FreeLocks
    /\ api = NoRouter

\* The store is usable: the process has not aborted, and the model's budget
\* of operations is not used up.
Ready == ~panicked /\ nOps < MaxOps

\* The greatest lastUpdateTs the self entry has carried so far.
High(h, nm) ==
    IF selfId \in DOMAIN nm /\ nm[selfId].LastUpdateTs > h
    THEN nm[selfId].LastUpdateTs
    ELSE h

\* A snapshot handed out by GetLocalState holds copies of the NodeInfo structs,
\* and a copied struct holds the same Value map as the live entry: a Go map is
\* a reference.  shared are the ids whose live entry still holds the map the
\* snapshot's entry holds; a write into that map shows in both.  replaced are
\* the ids whose live entry an operation has dropped or overwritten with
\* another struct.
Aliased(sn, nm, replaced) ==
    LET shared == {id \in sn.shared : id \in DOMAIN nm /\ id \notin replaced}
    IN [sn EXCEPT !.shared = shared,
                  !.map = [id \in DOMAIN sn.map |->
                             IF id \in shared
                             THEN [sn.map[id] EXCEPT !.Value = nm[id].Value]
                             ELSE sn.map[id]]]

\* What every store operation leaves behind besides its own effect: the
\* record of the store it started from, and the snapshot a caller may hold.
Step(replaced) ==
    /\ nOps' = nOps + 1
    /\ pre' = Store
    /\ selfTsHigh' = High(selfTsHigh, nodeMap')
    /\ snap' = Aliased(snap, nodeMap', replaced)
    /\ UNCHANGED <<pc, holder, api>>

Tick ==
    /\ Ready
    /\ now < MaxTime
    /\ now' = now + 1
    /\ UNCHANGED <<nodeMap, clusterSize, failureDomainsMap, selfCorrect,
                   lostQuorumTs, panicked, nOps, last, pre, selfTsHigh, snap,
                   pc, holder, api>>

updateSelfTs ==
    /\ Ready
    /\ nodeMap' = Put(nodeMap, selfId,
                      [Lookup(nodeMap, selfId) EXCEPT !.LastUpdateTs = now])
    /\ last' = Called("updateSelfTs", selfId, TRUE)
    /\ Step({})
    /\ UNCHANGED <<clusterSize, failureDomainsMap, selfCorrect, lostQuorumTs, now, panicked>>

\* nodeInfo.Value[key] = val panics on a nil map.
UpdateSelf(key, val) ==
    /\ Ready
    /\ LET nodeInfo == Lookup(nodeMap, selfId) IN
       IF nodeInfo.Value.isNil
       THEN /\ panicked' = TRUE
            /\ last' = [Called("UpdateSelf", selfId, FALSE)
                          EXCEPT !.arg = key, !.val = val]
            /\ UNCHANGED nodeMap
       ELSE /\ nodeMap' =
                 Put(nodeMap, selfId,
                     [nodeInfo EXCEPT
                        !.Value = [isNil |-> FALSE,
                                   kv |-> [k \in (DOMAIN nodeInfo.Value.kv) \cup {key} |->
                                             IF k = key THEN val
                                             ELSE nodeInfo.Value.kv[k]]],
                        !.LastUpdateTs = now])
            /\ last' = [Called("UpdateSelf", selfId, TRUE)
                          EXCEPT !.arg = key, !.val = val]
            /\ UNCHANGED panicked
    /\ Step({})
    /\ UNCHANGED <<clusterSize, failureDomainsMap, selfCorrect, lostQuorumTs, now>>

\* updateSelfClusterDomain as it would be if it stamped the self entry whether
\* or not the domain changes.
updateSelfClusterDomainStamping(d) ==
    /\ Ready
    /\ LET nodeInfo == Lookup(nodeMap, selfId)
       IN /\ nodeMap' = Put(nodeMap, selfId,
                            [nodeInfo EXCEPT !.ClusterDomain = d,
                                             !.LastUpdateTs = now])
          /\ last' = [Called("updateSelfClusterDomain", selfId,
                             nodeInfo.ClusterDomain # d)
                        EXCEPT !.arg = d]
    /\ Step({})
    /\ UNCHANGED <<clusterSize, failureDomainsMap, selfCorrect, lostQuorumTs, now, panicked>>

updateSelfClusterDomain(d) ==
    /\ Ready
    /\ LET nodeInfo == Lookup(nodeMap, selfId)
           previousClusterDomain == nodeInfo.ClusterDomain
       IN IF previousClusterDomain # d
          THEN /\ nodeMap' = Put(nodeMap, selfId,
                                 [nodeInfo EXCEPT !.ClusterDomain = d,
                                                  !.LastUpdateTs = now])
               /\ last' = [Called("updateSelfClusterDomain", selfId, TRUE)
                             EXCEPT !.arg = d]
          ELSE /\ UNCHANGED nodeMap
               /\ last' = [Called("updateSelfClusterDomain", selfId, FALSE)
                             EXCEPT !.arg = d]
    /\ Step({})
    /\ UNCHANGED <<clusterSize, failureDomainsMap, selfCorrect, lostQuorumTs, now, panicked>>

\* UpdateNodeStatus as it would be if it wrote the entry before looking
\* whether the id is known.
UpdateNodeStatusUpserting(nodeId, status) ==
    /\ Ready
    /\ nodeMap' = Put(nodeMap, nodeId,
                      [Lookup(nodeMap, nodeId) EXCEPT !.Status = status,
                                                      !.LastUpdateTs = now])
    /\ last' = Called("UpdateNodeStatus", nodeId, nodeId \in DOMAIN nodeMap)
    /\ Step({})
    /\ UNCHANGED <<clusterSize, failureDomainsMap, selfCorrect, lostQuorumTs, now, panicked>>

\* UpdateSelfStatus(status) is UpdateNodeStatus(s.id, status).
UpdateNodeStatus(nodeId, status) ==
    /\ Ready
    /\ IF nodeId \notin DOMAIN nodeMap
       THEN /\ UNCHANGED nodeMap
            /\ last' = Called("UpdateNodeStatus", nodeId, FALSE)
       ELSE /\ nodeMap' = [nodeMap EXCEPT ![nodeId].Status = status,
                                          ![nodeId].LastUpdateTs = now]
            /\ last' = Called("UpdateNodeStatus", nodeId, TRUE)
    /\ Step({})
    /\ UNCHANGED <<clusterSize, failureDomainsMap, selfCorrect, lostQuorumTs, now, panicked>>

\* addNodeUnlocked as it would be if it built a fresh entry for every id,
\* known or not.
addNodeUnlockedAfresh(nm, id, status, quorumMember, failureDomain, t) ==
    Put(nm, id,
        [Id |-> id, GenNumber |-> 0, LastUpdateTs |-> t,
         WaitForGenUpdateTs |-> t, Status |-> status,
         Value |-> EmptyValue, QuorumMember |-> quorumMember,
         ClusterDomain |-> failureDomain, Addr |-> ""])

addNodeUnlocked(nm, id, status, quorumMember, failureDomain, t) ==
    IF id \in DOMAIN nm
    THEN [nm EXCEPT ![id].Status = status,
                    ![id].LastUpdateTs = t,
                    ![id].QuorumMember = quorumMember,
                    ![id].ClusterDomain = failureDomain]
    ELSE Put(nm, id,
             [Id |-> id, GenNumber |-> 0, LastUpdateTs |-> t,
              WaitForGenUpdateTs |-> t, Status |-> status,
              Value |-> EmptyValue, QuorumMember |-> quorumMember,
              ClusterDomain |-> failureDomain, Addr |-> ""])

AddNode(id, status, quorumMember, failureDomain) ==
    /\ Ready
    /\ nodeMap' = addNodeUnlocked(nodeMap, id, status, quorumMember,
                                  failureDomain, now)
    /\ last' = [Called("AddNode", id, TRUE)
                  EXCEPT !.obj = [status |-> status,
                                  quorumMember |-> quorumMember,
                                  failureDomain |-> failureDomain,
                                  t |-> now]]
    /\ Step({})
    /\ UNCHANGED <<clusterSize, failureDomainsMap, selfCorrect, lostQuorumTs, now, panicked>>

removeNodeUnlocked(nm, id) ==
    IF id \notin DOMAIN nm
    THEN nm
    ELSE [x \in (DOMAIN nm) \ {id} |-> nm[x]]

RemoveNode(id) ==
    /\ Ready
    /\ nodeMap' = removeNodeUnlocked(nodeMap, id)
    /\ last' = Called("RemoveNode", id, id \in DOMAIN nodeMap)
    /\ Step({id})
    /\ UNCHANGED <<clusterSize, failureDomainsMap, selfCorrect, lostQuorumTs, now, panicked>>

getLocalState == [key \in DOMAIN nodeMap |-> nodeMap[key]]

\* GetLocalNodeInfo(id) fails for an id that is not a key of nodeMap.
GetLocalNodeInfoFails(id) == id \notin DOMAIN nodeMap

GetLocalNodeInfo(id) ==
    /\ Ready
    /\ last' = Called("GetLocalNodeInfo", id, ~GetLocalNodeInfoFails(id))
    /\ UNCHANGED <<nodeMap, clusterSize, failureDomainsMap, selfCorrect,
                   lostQuorumTs, now, panicked>>
    /\ Step({})

UpdateLostQuorumTs ==
    /\ Ready
    /\ lostQuorumTs' = now
    /\ last' = Called("UpdateLostQuorumTs", "", TRUE)
    /\ UNCHANGED <<nodeMap, clusterSize, failureDomainsMap, selfCorrect, now,
                   panicked>>
    /\ Step({})

\* The records a peer's snapshot may carry for id: the peer's own view, with
\* its own clock reading and its own idea of the node's status.
RemoteStatuses == {NODE_STATUS_UP, NODE_STATUS_INVALID}

RemoteInfo(id, ts, status) ==
    [Id |-> id, GenNumber |-> 1, LastUpdateTs |-> ts,
     WaitForGenUpdateTs |-> ZeroTime, Status |-> status,
     Value |-> [isNil |-> FALSE, kv |-> [k \in StoreKeys |-> 7]],
     QuorumMember |-> TRUE, ClusterDomain |-> "d2", Addr |-> "remote"]

RemoteInfos(id) ==
    {RemoteInfo(id, ts, status) : ts \in 0..MaxTime, status \in RemoteStatuses}

\* A diff carries one record or none for each peer and, as a snapshot of the
\* sender's whole view, possibly one for this node itself.
Diffs ==
    UNION {{d \in [ids -> UNION {RemoteInfos(id) : id \in ids}] :
              /\ \A id \in ids : d[id].Id = id
              /\ selfId \in ids =>
                    d[selfId] = RemoteInfo(selfId, MaxTime, NODE_STATUS_UP)}
           : ids \in SUBSET NodeIds}

\* Mutant of Adopts: a remote record with an equal timestamp wins too.
AdoptsOnTie(selfValue, newNodeInfo) ==
    \/ ~statusValid(selfValue.Status)
    \/ ~Before(newNodeInfo.LastUpdateTs, selfValue.LastUpdateTs)

\* The test as it would be if any record with another timestamp won, the
\* older as well as the newer.
AdoptsOnDifference(selfValue, newNodeInfo) ==
    \/ ~statusValid(selfValue.Status)
    \/ selfValue.LastUpdateTs # newNodeInfo.LastUpdateTs

\* The test of Update on one (id, newNodeInfo) of diff against the local entry.
Adopts(selfValue, newNodeInfo) ==
    \/ ~statusValid(selfValue.Status)
    \/ Before(selfValue.LastUpdateTs, newNodeInfo.LastUpdateTs)

\* The adoption as it would be if the local value map were kept as well.
AdoptedKeepingValue(selfValue, newNodeInfo) ==
    [newNodeInfo EXCEPT !.Status = selfValue.Status, !.Value = selfValue.Value]

\* Mutant of Adopted: the remote record is stored as received, status included.
AdoptedWithRemoteStatus(selfValue, newNodeInfo) == newNodeInfo

\* newNodeInfo.Status = selfValue.Status; s.nodeMap[id] = newNodeInfo
Adopted(selfValue, newNodeInfo) ==
    [newNodeInfo EXCEPT !.Status = selfValue.Status]

\* Mutant of Merge: a record for an id the store does not know is stored too.
MergeLearning(nm, diff) ==
    [id \in (DOMAIN nm) \cup ((DOMAIN diff) \ {selfId}) |->
        IF id \notin DOMAIN nm THEN diff[id]
        ELSE IF id \in DOMAIN diff /\ id # selfId /\ Adopts(nm[id], diff[id])
        THEN Adopted(nm[id], diff[id])
        ELSE nm[id]]

\* The merge as it would be if selfCorrect let it put back a self entry that
\* was removed.
MergeSelfCorrecting(nm, diff) ==
    [id \in (DOMAIN nm) \cup
             (IF selfCorrect THEN (DOMAIN diff) \cap {selfId} ELSE {}) |->
        IF id \notin DOMAIN nm THEN diff[id]
        ELSE IF id \in DOMAIN diff /\ id # selfId /\ Adopts(nm[id], diff[id])
        THEN Adopted(nm[id], diff[id])
        ELSE nm[id]]

\* The loop of Update: each id of diff is handled on its own, so the order of
\* the iteration does not matter.
Merge(nm, diff) ==
    [id \in DOMAIN nm |->
        IF id \in DOMAIN diff /\ id # selfId /\ Adopts(nm[id], diff[id])
        THEN Adopted(nm[id], diff[id])
        ELSE nm[id]]

Update(diff) ==
    /\ Ready
    /\ nodeMap' = Merge(nodeMap, diff)
    /\ last' = [Called("Update", "", TRUE) EXCEPT !.diff = diff]
    /\ Step({id \in (DOMAIN diff) \cap (DOMAIN nodeMap) :
               id # selfId /\ Adopts(nodeMap[id], diff[id])})
    /\ UNCHANGED <<clusterSize, failureDomainsMap, selfCorrect, lostQuorumTs, now, panicked>>

\* The authoritative peer maps the reconciler is called with.
NodeUpdates == [QuorumMember : BOOLEAN, ClusterDomain : Domains, Addr : {"addr"}]
PeerMaps == UNION {[ids -> NodeUpdates] : ids \in SUBSET NodeIds}

\* Mutant of updateClusterDomainsMap: the other buckets are not scanned.
updateClusterDomainsMapNoScan(fdm, failureDomain, nodeId) ==
    [fd \in (DOMAIN fdm) \cup {failureDomain} |->
       IF fd = failureDomain
       THEN (IF fd \in DOMAIN fdm THEN fdm[fd] ELSE {}) \cup {nodeId}
       ELSE fdm[fd]]

\* The loop over the other buckets, then the insertion into failureDomain's.
updateClusterDomainsMap(fdm, failureDomain, nodeId) ==
    LET cleared == [fd \in DOMAIN fdm |->
                      IF fd = failureDomain THEN fdm[fd]
                      ELSE fdm[fd] \ {nodeId}]
    IN [fd \in (DOMAIN cleared) \cup {failureDomain} |->
          IF fd = failureDomain
          THEN (IF fd \in DOMAIN cleared THEN cleared[fd] ELSE {}) \cup {nodeId}
          ELSE cleared[fd]]

RECURSIVE removeNodes(_, _)
removeNodes(nm, ids) ==
    IF ids = {} THEN nm
    ELSE LET id == CHOOSE x \in ids : TRUE
         IN removeNodes(removeNodeUnlocked(nm, id), ids \ {id})

RECURSIVE addNodes(_, _, _, _)
addNodes(nm, ids, peers, t) ==
    IF ids = {} THEN nm
    ELSE LET id == CHOOSE x \in ids : TRUE
         IN addNodes(addNodeUnlocked(nm, id, NODE_STATUS_DOWN,
                                     peers[id].QuorumMember,
                                     peers[id].ClusterDomain, t),
                     ids \ {id}, peers, t)

RECURSIVE indexNodes(_, _, _)
indexNodes(fdm, ids, peers) ==
    IF ids = {} THEN fdm
    ELSE LET id == CHOOSE x \in ids : TRUE
         IN indexNodes(updateClusterDomainsMap(fdm, peers[id].ClusterDomain, id),
                       ids \ {id}, peers)

\* Mutant of newClusterSize: the size is taken from nodeMap as it was found.
newClusterSizeFromNodeMap(nm, peers) == Cardinality(DOMAIN nm)

\* s.clusterSize = uint(len(peers))
newClusterSize(nm, peers) == Cardinality(DOMAIN peers)

\* The refresh as it would be if it left the address alone.
refreshedWithoutAddr(nodeInfo, update) ==
    [nodeInfo EXCEPT !.QuorumMember = update.QuorumMember,
                     !.ClusterDomain = update.ClusterDomain]

\* The refresh as it would be if it reset the entry's timestamp.
refreshedUnstamped(nodeInfo, update) ==
    [nodeInfo EXCEPT !.QuorumMember = update.QuorumMember,
                     !.ClusterDomain = update.ClusterDomain,
                     !.Addr = update.Addr,
                     !.LastUpdateTs = ZeroTime]

\* The last loop of updateCluster on one entry.
refreshed(nodeInfo, update) ==
    [nodeInfo EXCEPT !.QuorumMember = update.QuorumMember,
                     !.ClusterDomain = update.ClusterDomain,
                     !.Addr = update.Addr]

\* The label an entry is counted under: update.ClusterDomain, the zero
\* value when peers has no entry for id.
countedDomain(id, peers) ==
    IF id \in DOMAIN peers THEN peers[id].ClusterDomain ELSE ""

\* The count as it would be without the test of nodeInfo.QuorumMember.
quorumMembersMapOfAll(nm, peers) ==
    [d \in {countedDomain(id, peers) : id \in DOMAIN nm} |->
        Cardinality({id \in DOMAIN nm : countedDomain(id, peers) = d})]

quorumMembersMap(nm, peers) ==
    LET members == {id \in DOMAIN nm : nm[id].QuorumMember}
    IN [d \in {countedDomain(id, peers) : id \in members} |->
          Cardinality({id \in members : countedDomain(id, peers) = d})]

\* updateCluster as a function of the store and the clock: the store after the
\* call and the map returned.
updateCluster(nm, fdm, peers, t) ==
    LET removeNodeIds == {id \in DOMAIN nm : id \notin DOMAIN peers}
        addNodeIds == {id \in DOMAIN peers : id \notin DOMAIN nm}
        removed == removeNodes(nm, removeNodeIds)
        added == addNodes(removed, addNodeIds, peers, t)
        final == [id \in DOMAIN added |->
                    IF id \in DOMAIN peers
                    THEN refreshed(added[id], peers[id])
                    ELSE added[id]]
    IN [nodeMap |-> final,
        clusterSize |-> newClusterSize(nm, peers),
        failureDomainsMap |->
            indexNodes(fdm, (DOMAIN added) \cap (DOMAIN peers), peers),
        qmm |-> quorumMembersMap(final, peers)]

UpdateCluster(peers) ==
    /\ Ready
    /\ LET r == updateCluster(nodeMap, failureDomainsMap, peers, now) IN
       /\ nodeMap' = r.nodeMap
       /\ clusterSize' = r.clusterSize
       /\ failureDomainsMap' = r.failureDomainsMap
       /\ last' = [Called("updateCluster", "", TRUE)
                     EXCEPT !.peers = peers, !.qmm = r.qmm]
    /\ Step({id \in DOMAIN nodeMap : id \notin DOMAIN peers})
    /\ UNCHANGED <<selfCorrect, lostQuorumTs, now, panicked>>

Next ==
    \/ Tick
    \/ updateSelfTs
    \/ \E key \in StoreKeys, val \in StoreVals : UpdateSelf(key, val)
    \/ \E d \in Domains : updateSelfClusterDomain(d)
    \/ \E id \in NodeIds, status \in CallStatuses : UpdateNodeStatus(id, status)
    \/ \E id \in NodeIds, status \in CallStatuses, qm \in BOOLEAN, fd \in Domains :
          AddNode(id, status, qm, fd)
    \/ \E id \in NodeIds : RemoveNode(id)
    \/ \E diff \in Diffs : Update(diff)
    \/ \E peers \in PeerMaps : UpdateCluster(peers)
    \/ \E id \in NodeIds : GetLocalNodeInfo(id)
    \/ UpdateLostQuorumTs

Spec == Init /\ [][Next]_vars

(***************************************************************************)
(* Properties of the store.                                                *)
(***************************************************************************)

\* s.failureDomainsMap[failureDomain]: the ids of the label's bucket, none for
\* a label without a bucket.
getNodesFromClusterDomain(fdm, failureDomain) ==
    IF failureDomain \in DOMAIN fdm THEN fdm[failureDomain] ELSE {}

Labels == Domains \cup {""}

\* C1: Update(diff) leaves the status of every entry of nodeMap as it was,
\* whatever statuses and timestamps diff carries; the status of an entry that
\* stays in nodeMap changes only through UpdateNodeStatus (UpdateSelfStatus),
\* AddNode or updateCluster.
C1_UpdateKeepsStatus ==
    /\ last.op = "Update" =>
         \A id \in DOMAIN pre.nodeMap :
            /\ id \in DOMAIN nodeMap
            /\ nodeMap[id].Status = pre.nodeMap[id].Status
    /\ \A id \in (DOMAIN pre.nodeMap) \cap (DOMAIN nodeMap) :
          nodeMap[id].Status # pre.nodeMap[id].Status =>
             last.op \in {"UpdateNodeStatus", "AddNode", "updateCluster"}

\* Update has adopted a record whose status differs from the local one.
C1_Witness ==
    /\ last.op = "Update"
    /\ \E id \in (DOMAIN last.diff) \cap (DOMAIN pre.nodeMap) :
          /\ nodeMap[id] # pre.nodeMap[id]
          /\ last.diff[id].Status # pre.nodeMap[id].Status
          /\ nodeMap[id].Value = last.diff[id].Value

\* C2: nodeMap has an entry for selfId in every reachable state; no operation
\* removes it, updateCluster with a peer map that does not list selfId
\* included.
C2_SelfAlwaysPresent == selfId \in DOMAIN nodeMap

\* C3: for every (id, remote) of diff with id # selfId and id in nodeMap,
\* Update replaces the local entry by remote (keeping the local status) if the
\* local status is not status-valid or local.lastUpdateTs < remote.lastUpdateTs,
\* and leaves the local entry unchanged otherwise (equal or older timestamps
\* with a valid status).
C3_AdoptIff ==
    last.op = "Update" =>
       \A id \in (DOMAIN last.diff) \cap (DOMAIN pre.nodeMap) :
          id # selfId =>
             LET local == pre.nodeMap[id]
                 remote == last.diff[id]
             IN IF \/ local.Status \in {NODE_STATUS_INVALID, NODE_STATUS_NEVER_GOSSIPED}
                   \/ local.LastUpdateTs < remote.LastUpdateTs
                THEN nodeMap[id] = [remote EXCEPT !.Status = local.Status]
                ELSE nodeMap[id] = local

\* Update met a record with the local entry's timestamp, the local status
\* being valid, and kept the local entry.
C3_Witness ==
    /\ last.op = "Update"
    /\ \E id \in (DOMAIN last.diff) \cap (DOMAIN pre.nodeMap) :
          /\ id # selfId
          /\ statusValid(pre.nodeMap[id].Status)
          /\ pre.nodeMap[id].LastUpdateTs = last.diff[id].LastUpdateTs
          /\ nodeMap[id] = pre.nodeMap[id]
          /\ nodeMap[id].Value # last.diff[id].Value

\* C4: Update(diff) leaves the key set of nodeMap as it was: an id of diff
\* that is not in nodeMap is still absent afterwards (GetLocalNodeInfo fails
\* for it), and no id is removed.
C4_UpdateKeepsKeys ==
    last.op = "Update" =>
       /\ DOMAIN nodeMap = DOMAIN pre.nodeMap
       /\ \A id \in (DOMAIN last.diff) \ (DOMAIN pre.nodeMap) :
             GetLocalNodeInfoFails(id)

\* Update was given a record for a peer the store does not know.
C4_Witness ==
    /\ last.op = "Update"
    /\ \E id \in DOMAIN last.diff : id # selfId /\ id \notin DOMAIN pre.nodeMap

\* C5: in every reachable state every id of a bucket failureDomainsMap[d] is
\* a key of nodeMap and nodeMap[id].clusterDomain = d.
C5_IndexSound ==
    \A d \in DOMAIN failureDomainsMap :
       \A i \in failureDomainsMap[d] :
          i \in DOMAIN nodeMap /\ nodeMap[i].ClusterDomain = d

\* C6: in every reachable state no node id is in two buckets of
\* failureDomainsMap.
C6_OneBucket ==
    \A d1, d2 \in DOMAIN failureDomainsMap :
       d1 # d2 => failureDomainsMap[d1] \cap failureDomainsMap[d2] = {}

\* updateCluster has moved a node from one bucket to another.
C6_Witness ==
    /\ last.op = "updateCluster"
    /\ \E id \in NodeIds, d1, d2 \in Domains :
          /\ d1 # d2
          /\ id \in getNodesFromClusterDomain(pre.failureDomainsMap, d1)
          /\ id \in getNodesFromClusterDomain(failureDomainsMap, d2)

\* C7: after updateCluster(P) the key set of GetLocalState() is
\* P.keys \cup {selfId}, whether or not P lists selfId.
C7_KeysAfterReconcile ==
    last.op = "updateCluster" =>
       DOMAIN getLocalState = (DOMAIN last.peers) \cup {selfId}

\* C8: calling updateCluster(P) again right after updateCluster(P), at the
\* same or a later time, leaves nodeMap, clusterSize and failureDomainsMap as
\* the first call left them and returns the same quorum-member counts.
C8_Idempotent ==
    last.op = "updateCluster" =>
       \A t \in now..MaxTime :
          LET again == updateCluster(nodeMap, failureDomainsMap, last.peers, t)
          IN /\ again.nodeMap = nodeMap
             /\ again.clusterSize = clusterSize
             /\ again.failureDomainsMap = failureDomainsMap
             /\ again.qmm = last.qmm

\* updateCluster has both removed a node and added one, and time is left for
\* a later second call.
C8_Witness ==
    /\ last.op = "updateCluster"
    /\ (DOMAIN pre.nodeMap) \ (DOMAIN last.peers) # {}
    /\ (DOMAIN last.peers) \ (DOMAIN pre.nodeMap) # {}
    /\ now < MaxTime

\* C9: after updateCluster(P), for every label d the bucket
\* failureDomainsMap[d] is the set of ids of nodeMap whose clusterDomain is d;
\* an id this call removed is in no bucket.  Stated for the calls that find
\* the self entry in nodeMap and list selfId in P.
C9_IndexExact ==
    (/\ last.op = "updateCluster"
     /\ selfId \in DOMAIN pre.nodeMap
     /\ selfId \in DOMAIN last.peers) =>
       \A d \in Labels :
          getNodesFromClusterDomain(failureDomainsMap, d) =
             {id \in DOMAIN nodeMap : nodeMap[id].ClusterDomain = d}

\* C10: after updateSelfClusterDomain(d_new) has changed the self domain from
\* d_old, selfId is not in failureDomainsMap[d_old] and is in
\* failureDomainsMap[d_new].
C10_SelfReindexed ==
    (last.op = "updateSelfClusterDomain" /\ last.ok) =>
       /\ selfId \notin getNodesFromClusterDomain(failureDomainsMap,
                               Lookup(pre.nodeMap, selfId).ClusterDomain)
       /\ selfId \in getNodesFromClusterDomain(failureDomainsMap, last.arg)

\* C11: updateSelfClusterDomain(d) returns true exactly when d differs from the
\* self entry's cluster domain; when it returns false the whole store,
\* the self entry's lastUpdateTs included, is what it was before the call.
C11_SameDomainIsNoOp ==
    last.op = "updateSelfClusterDomain" =>
        /\ last.ok <=> (last.arg # Lookup(pre.nodeMap, selfId).ClusterDomain)
        /\ ~last.ok => Store = pre
        /\ Lookup(nodeMap, selfId).ClusterDomain = last.arg

\* A call with the domain the self entry already has, made after the clock
\* has moved on from the entry's lastUpdateTs.
C11_Witness ==
    /\ last.op = "updateSelfClusterDomain"
    /\ ~last.ok
    /\ selfId \in DOMAIN nodeMap
    /\ nodeMap[selfId].LastUpdateTs < now

\* C12: the lastUpdateTs of the self entry never decreases: whenever the self
\* entry is in nodeMap its lastUpdateTs is the greatest it has ever carried,
\* and no operation leaves it below what it was before the operation.
C12_SelfTsNeverDecreases ==
    /\ selfId \in DOMAIN nodeMap => nodeMap[selfId].LastUpdateTs = selfTsHigh
    /\ (selfId \in DOMAIN pre.nodeMap /\ selfId \in DOMAIN nodeMap) =>
           pre.nodeMap[selfId].LastUpdateTs <= nodeMap[selfId].LastUpdateTs

\* Two consecutive mutations of the self entry, the second at a later time.
C12_Witness ==
    /\ nOps = 2
    /\ last.op \in {"UpdateSelf", "UpdateNodeStatus", "updateSelfTs",
                    "updateSelfClusterDomain", "AddNode"}
    /\ last.id = selfId /\ last.ok
    /\ selfId \in DOMAIN pre.nodeMap /\ selfId \in DOMAIN nodeMap
    /\ pre.nodeMap[selfId] # nodeMap[selfId]
    /\ pre.nodeMap[selfId].LastUpdateTs < nodeMap[selfId].LastUpdateTs
    /\ pre.nodeMap[selfId].Value.kv # <<>>

\* C13: UpdateNodeStatus(id, s), RemoveNode(id) and GetLocalNodeInfo(id) return
\* an error exactly when id is not a key of nodeMap, and a call that returns
\* an error leaves nodeMap, failureDomainsMap, clusterSize and lostQuorumTs
\* as they were.
C13_UnknownNodeError ==
    last.op \in {"UpdateNodeStatus", "RemoveNode", "GetLocalNodeInfo"} =>
        /\ last.ok <=> last.id \in DOMAIN pre.nodeMap
        /\ ~last.ok => Store = pre

\* A call for an unknown id on a store whose lostQuorumTs has been set.
C13_Witness ==
    /\ last.op \in {"UpdateNodeStatus", "RemoveNode", "GetLocalNodeInfo"}
    /\ ~last.ok
    /\ last.id \notin DOMAIN nodeMap
    /\ lostQuorumTs # ZeroTime

\* ---------------------------------------------------------------------------
\* Delivery of a remote snapshot.

\* s.GossipVersion, set by InitStore, and the versions a peer may announce.
GossipVersion == "v1"
Versions == {"v1", "v2"}

\* Remote records as they arrive: a record whose value map was nil on the
\* sender is decoded with a nil Value.
WideRemoteInfos(id) ==
    {[RemoteInfo(id, ts, status) EXCEPT !.Value = value] :
        ts \in 0..MaxTime, status \in RemoteStatuses,
        value \in {NilValue, [isNil |-> FALSE, kv |-> [k \in {"k"} |-> 7]]}}

WideDiffs ==
    UNION {{d \in [ids -> UNION {WideRemoteInfos(id) : id \in ids}] :
               \A id \in ids :
                   /\ d[id] \in WideRemoteInfos(id)
                   /\ id = selfId => d[id] = RemoteInfo(selfId, MaxTime, NODE_STATUS_UP)}
           : ids \in SUBSET NodeIds}

\* The delivery as it would be without the version test.
DeliverRemoteStateUnchecked(version, diff) ==
    /\ Ready
    /\ nodeMap' = Merge(nodeMap, diff)
    /\ last' = [Called("DeliverRemoteState", "", version = GossipVersion)
                  EXCEPT !.arg = version, !.diff = diff]
    /\ Step({id \in (DOMAIN diff) \cap (DOMAIN nodeMap) :
               id # selfId /\ Adopts(nodeMap[id], diff[id])})
    /\ UNCHANGED <<clusterSize, failureDomainsMap, selfCorrect, lostQuorumTs, now, panicked>>

\* The transport hands a decoded snapshot and the sender's gossipVersion to
\* the store: a snapshot of another version is dropped, any other is merged
\* by Update.
DeliverRemoteState(version, diff) ==
    /\ Ready
    /\ IF version # GossipVersion
       THEN /\ UNCHANGED nodeMap
            /\ last' = [Called("DeliverRemoteState", "", FALSE)
                          EXCEPT !.arg = version, !.diff = diff]
            /\ Step({})
       ELSE /\ nodeMap' = Merge(nodeMap, diff)
            /\ last' = [Called("DeliverRemoteState", "", TRUE)
                          EXCEPT !.arg = version, !.diff = diff]
            /\ Step({id \in (DOMAIN diff) \cap (DOMAIN nodeMap) :
                       id # selfId /\ Adopts(nodeMap[id], diff[id])})
    /\ UNCHANGED <<clusterSize, failureDomainsMap, selfCorrect, lostQuorumTs, now, panicked>>

NextDeliver ==
    \/ Tick
    \/ \E id \in NodeIds, status \in CallStatuses, quorumMember \in BOOLEAN,
          failureDomain \in Domains :
            AddNode(id, status, quorumMember, failureDomain)
    \/ \E nodeId \in NodeIds, status \in CallStatuses :
            UpdateNodeStatus(nodeId, status)
    \/ \E diff \in WideDiffs : Update(diff)
    \/ \E version \in Versions, diff \in WideDiffs :
            DeliverRemoteState(version, diff)

SpecDeliver == Init /\ [][NextDeliver]_vars

\* C14: a remote snapshot whose gossipVersion differs from the store's is
\* rejected: nodeMap, every field of every entry, is what it was before the
\* delivery, also when the snapshot has newer records for known peers.
C14_VersionMismatchRejected ==
    (last.op = "DeliverRemoteState" /\ last.arg # GossipVersion) =>
        /\ ~last.ok
        /\ nodeMap = pre.nodeMap

\* A snapshot of another version with a record Update would have adopted.
C14_Witness ==
    /\ last.op = "DeliverRemoteState"
    /\ last.arg # GossipVersion
    /\ \E id \in (DOMAIN last.diff) \cap (DOMAIN nodeMap) :
          /\ id # selfId
          /\ statusValid(nodeMap[id].Status)
          /\ Before(nodeMap[id].LastUpdateTs, last.diff[id].LastUpdateTs)

\* ---------------------------------------------------------------------------
\* A caller holding a snapshot.

\* GetLocalState: the caller receives a new map with a copy of every NodeInfo
\* struct; each copy's Value is the live entry's map, a nil map excepted.
GetLocalState ==
    /\ Ready
    /\ ~snap.taken
    /\ snap' = [taken |-> TRUE, map |-> getLocalState, orig |-> getLocalState,
                shared |-> {id \in DOMAIN nodeMap : ~nodeMap[id].Value.isNil},
                touched |-> FALSE]
    /\ last' = Called("GetLocalState", "", TRUE)
    /\ nOps' = nOps + 1
    /\ pre' = Store
    /\ UNCHANGED <<nodeMap, clusterSize, failureDomainsMap, selfCorrect,
                   lostQuorumTs, now, panicked, selfTsHigh, pc, holder, api>>

\* The caller changes the snapshot it holds, once.
CallerHolds == ~panicked /\ snap.taken /\ ~snap.touched

\* delete(snapshot, id)
SnapshotDelete(id) ==
    /\ CallerHolds
    /\ id \in DOMAIN snap.map
    /\ snap' = [snap EXCEPT !.map = [x \in (DOMAIN snap.map) \ {id} |-> snap.map[x]],
                            !.shared = snap.shared \ {id},
                            !.touched = TRUE]
    /\ last' = Called("SnapshotDelete", id, TRUE)
    /\ pre' = Store
    /\ UNCHANGED <<nodeMap, clusterSize, failureDomainsMap, selfCorrect,
                   lostQuorumTs, now, panicked, nOps, selfTsHigh, pc, holder, api>>

\* snapshot[id] = info
SnapshotPut(id, info) ==
    /\ CallerHolds
    /\ snap' = [snap EXCEPT !.map = Put(snap.map, id, info),
                            !.shared = snap.shared \ {id},
                            !.touched = TRUE]
    /\ last' = Called("SnapshotPut", id, TRUE)
    /\ pre' = Store
    /\ UNCHANGED <<nodeMap, clusterSize, failureDomainsMap, selfCorrect,
                   lostQuorumTs, now, panicked, nOps, selfTsHigh, pc, holder, api>>

\* snapshot[id].Value[key] = val: a write into the map the entry holds, which
\* is the live entry's map while id is shared.
SnapshotSetKey(id, key, val) ==
    /\ CallerHolds
    /\ id \in DOMAIN snap.map
    /\ ~snap.map[id].Value.isNil
    /\ LET kv == snap.map[id].Value.kv
           written == [isNil |-> FALSE,
                       kv |-> [k \in (DOMAIN kv) \cup {key} |->
                                 IF k = key THEN val ELSE kv[k]]]
       IN /\ snap' = [snap EXCEPT !.map[id].Value = written, !.touched = TRUE]
          /\ nodeMap' = IF id \in snap.shared
                        THEN [nodeMap EXCEPT ![id].Value = written]
                        ELSE nodeMap
    /\ last' = [Called("SnapshotSetKey", id, TRUE) EXCEPT !.arg = key, !.val = val]
    /\ pre' = Store
    /\ UNCHANGED <<clusterSize, failureDomainsMap, selfCorrect, lostQuorumTs,
                   now, panicked, nOps, selfTsHigh, pc, holder, api>>

NextSnapshot ==
    \/ Tick
    \/ \E key \in StoreKeys, val \in StoreVals : UpdateSelf(key, val)
    \/ \E id \in NodeIds, status \in CallStatuses, quorumMember \in BOOLEAN,
          failureDomain \in Domains :
            AddNode(id, status, quorumMember, failureDomain)
    \/ \E id \in NodeIds : RemoveNode(id)
    \/ \E diff \in Diffs : Update(diff)
    \/ GetLocalState
    \/ \E id \in NodeIds : SnapshotDelete(id)
    \/ \E id \in NodeIds : SnapshotPut(id, RemoteInfo(id, 0, NODE_STATUS_UP))
    \/ \E id \in NodeIds, key \in StoreKeys, val \in StoreVals :
            SnapshotSetKey(id, key, val)

SpecSnapshot == Init /\ [][NextSnapshot]_vars

\* C15: a snapshot returned by GetLocalState is isolated from the live store:
\* nothing the caller does to the snapshot (deleting or adding an id,
\* replacing an entry, writing a key of an entry's value map) changes the
\* store, and no later store operation changes a snapshot the caller has not
\* touched.
C15_SnapshotIsolated ==
    /\ last.op \in {"SnapshotDelete", "SnapshotPut", "SnapshotSetKey"} =>
           Store = pre
    /\ (snap.taken /\ ~snap.touched) => snap.map = snap.orig

\* ---------------------------------------------------------------------------
\* Reading the key/value store.

\* val of "val, exists := nodeInfo.Value[key]" when the key does not exist.
NilVal == 0

\* GetStoreKeyValue(key) on the node map nm.
GetStoreKeyValue(nm, key) ==
    LET ids == {id \in DOMAIN nm :
                   /\ statusValid(nm[id].Status)
                   /\ ~nm[id].Value.isNil
                   /\ \/ nm[id].Value.kv = <<>>
                      \/ key \in DOMAIN nm[id].Value.kv}
    IN [id \in ids |->
          [Id |-> nm[id].Id,
           GenNumber |-> nm[id].GenNumber,
           LastUpdateTs |-> nm[id].LastUpdateTs,
           Status |-> nm[id].Status,
           Value |-> IF key \in DOMAIN nm[id].Value.kv
                     THEN nm[id].Value.kv[key]
                     ELSE NilVal]]

\* C16: for every key k and every node p of nodeMap, GetStoreKeyValue(k) has
\* an entry for p exactly when p's status is valid and p's value is empty or
\* has the key k; a value map that is absent (adopted by Update from a
\* remote record that carried none) is an empty value.
C16_KeyValueMembership ==
    last.op = "Update" =>
        \A k \in StoreKeys, p \in DOMAIN nodeMap :
            p \in DOMAIN GetStoreKeyValue(nodeMap, k) <=>
                /\ statusValid(nodeMap[p].Status)
                /\ \/ nodeMap[p].Value.kv = <<>>
                   \/ k \in DOMAIN nodeMap[p].Value.kv

\* What a completed UpdateSelf(k, v) on a store whose self status is valid
\* leaves: GetStoreKeyValue(k) has the self entry with id selfId, value v and
\* the self status, and the other keys of the self value map are as before.
UpdateSelfPublishes ==
    LET self == Lookup(nodeMap, selfId)
        before == Lookup(pre.nodeMap, selfId)
        found == GetStoreKeyValue(nodeMap, last.arg)
    IN (last.op = "UpdateSelf" /\ last.ok /\ statusValid(self.Status)) =>
           /\ selfId \in DOMAIN found
           /\ found[selfId].Id = selfId
           /\ found[selfId].Value = last.val
           /\ found[selfId].Status = self.Status
           /\ \A j \in StoreKeys \ {last.arg} :
                 /\ j \in DOMAIN self.Value.kv <=> j \in DOMAIN before.Value.kv
                 /\ j \in DOMAIN self.Value.kv =>
                        self.Value.kv[j] = before.Value.kv[j]

\* A published key stays published with its value across every operation
\* other than UpdateSelf, unless the operation set an invalid self status.
SelfValueStays ==
    LET before == Lookup(pre.nodeMap, selfId)
    IN \A k \in StoreKeys :
         (/\ last.op # "UpdateSelf"
          /\ selfId \in DOMAIN GetStoreKeyValue(pre.nodeMap, k)
          /\ k \in DOMAIN before.Value.kv
          /\ ~(selfId \in DOMAIN nodeMap /\ ~statusValid(nodeMap[selfId].Status)))
         => /\ selfId \in DOMAIN GetStoreKeyValue(nodeMap, k)
            /\ GetStoreKeyValue(nodeMap, k)[selfId].Value = before.Value.kv[k]

\* C17: after UpdateSelf(k, v) on a store whose self status is valid,
\* GetStoreKeyValue(k) has an entry for selfId with id selfId, value v and the
\* current self status, the other keys of the self value map are unchanged,
\* and the entry stays until a later UpdateSelf(k, v') overwrites it.
C17_SelfValuePublished == UpdateSelfPublishes /\ SelfValueStays

\* C20: no sequence of store operations makes a store operation abort the
\* process: every call of UpdateSelf, updateSelfTs and
\* updateSelfClusterDomain completes normally in every state reachable after
\* InitStore, those reached through RemoveNode or updateCluster included.
C20_NoAbort == ~panicked

\* ---------------------------------------------------------------------------
\* Threads and locks.  An operation is the sequence of its lock operations and
\* of its reads and writes of the store's fields; a deferred Unlock is the
\* operation's last instruction.

Lock(l) == [k |-> "lock", x |-> l]
Unlock(l) == [k |-> "unlock", x |-> l]
Read(f) == [k |-> "read", x |-> f]
Write(f) == [k |-> "write", x |-> f]

Operations ==
    {"UpdateLostQuorumTs", "GetLostQuorumTs", "InitStore", "UpdateSelf",
     "GetLocalState", "updateCluster", "getNodesFromClusterDomain"}

\* Program() as it would be if getNodesFromClusterDomain looked the bucket's
\* ids up in nodeMap, under the store lock, while holding its own lock.
ProgramReversed(op) ==
    CASE op = "UpdateLostQuorumTs" ->
           <<Lock("storeLock"), Write("lostQuorumTs"), Unlock("storeLock")>>
      [] op = "GetLostQuorumTs" ->
           <<Read("lostQuorumTs")>>
      [] op = "InitStore" ->
           <<Write("nodeMap"), Write("nodeMap")>>
      [] op = "UpdateSelf" ->
           <<Lock("storeLock"), Read("nodeMap"), Write("nodeMap"),
             Unlock("storeLock")>>
      [] op = "GetLocalState" ->
           <<Lock("storeLock"), Read("nodeMap"), Unlock("storeLock")>>
      [] op = "updateCluster" ->
           <<Lock("storeLock"), Write("clusterSize"), Read("nodeMap"),
             Write("nodeMap"), Lock("failureDomainsMapLock"),
             Write("failureDomainsMap"), Unlock("failureDomainsMapLock"),
             Unlock("storeLock")>>
      [] op = "getNodesFromClusterDomain" ->
           <<Lock("failureDomainsMapLock"), Read("failureDomainsMap"),
             Lock("storeLock"), Read("nodeMap"), Unlock("storeLock"),
             Unlock("failureDomainsMapLock")>>

Program(op) ==
    CASE op = "UpdateLostQuorumTs" ->                       \* lines 54-59
           <<Lock("storeLock"), Write("lostQuorumTs"), Unlock("storeLock")>>
      [] op = "GetLostQuorumTs" ->                          \* lines 61-63
           <<Read("lostQuorumTs")>>
      [] op = "InitStore" ->                                \* lines 72, 85
           <<Write("nodeMap"), Write("nodeMap")>>
      [] op = "UpdateSelf" ->                               \* lines 97-105
           <<Lock("storeLock"), Read("nodeMap"), Write("nodeMap"),
             Unlock("storeLock")>>
      [] op = "GetLocalState" ->                            \* lines 275-279
           <<Lock("storeLock"), Read("nodeMap"), Unlock("storeLock")>>
      [] op = "updateCluster" ->                            \* lines 322-403
           <<Lock("storeLock"), Write("clusterSize"), Read("nodeMap"),
             Write("nodeMap"), Lock("failureDomainsMapLock"),
             Write("failureDomainsMap"), Unlock("failureDomainsMapLock"),
             Unlock("storeLock")>>
      [] op = "getNodesFromClusterDomain" ->                \* lines 405-409
           <<Lock("failureDomainsMapLock"), Read("failureDomainsMap"),
             Unlock("failureDomainsMapLock")>>

\* Thread t is inside an operation with an instruction left to run.
Running(t) ==
    /\ pc[t].op # "idle"
    /\ pc[t].i <= Len(Program(pc[t].op))

\* The instruction thread t runs next.
Instr(t) == Program(pc[t].op)[pc[t].i]

Advance(t) == pc' = [pc EXCEPT ![t].i = pc[t].i + 1]

StoreUnchanged ==
    UNCHANGED <<nodeMap, clusterSize, failureDomainsMap, selfCorrect,
                lostQuorumTs, now, panicked, nOps, last, pre, selfTsHigh, snap,
                api>>

\* A caller's thread enters an operation.
Start(t, op) ==
    /\ pc[t].op = "idle"
    /\ pc' = [pc EXCEPT ![t] = [op |-> op, i |-> 1]]
    /\ UNCHANGED holder
    /\ StoreUnchanged

\* sync.Mutex.Lock: blocks while another thread, or this one, holds the lock.
Acquire(t) ==
    /\ Running(t)
    /\ Instr(t).k = "lock"
    /\ holder[Instr(t).x] = 0
    /\ holder' = [holder EXCEPT ![Instr(t).x] = t]
    /\ Advance(t)
    /\ StoreUnchanged

Release(t) ==
    /\ Running(t)
    /\ Instr(t).k = "unlock"
    /\ holder' = [holder EXCEPT ![Instr(t).x] = 0]
    /\ Advance(t)
    /\ StoreUnchanged

\* A read or a write of a field of the store.
Access(t) ==
    /\ Running(t)
    /\ Instr(t).k \in {"read", "write"}
    /\ Advance(t)
    /\ UNCHANGED holder
    /\ StoreUnchanged

\* The operation returns to its caller.
Return(t) ==
    /\ pc[t].op # "idle"
    /\ pc[t].i > Len(Program(pc[t].op))
    /\ pc' = [pc EXCEPT ![t] = [op |-> "idle", i |-> 0]]
    /\ UNCHANGED holder
    /\ StoreUnchanged

ThreadStep(t) == Acquire(t) \/ Release(t) \/ Access(t) \/ Return(t)

NextLocks ==
    \/ \E t \in Threads, op \in Operations : Start(t, op)
    \/ \E t \in Threads : Acquire(t)
    \/ \E t \in Threads : Release(t)
    \/ \E t \in Threads : Access(t)
    \/ \E t \in Threads : Return(t)

SpecLocks == Init /\ [][NextLocks]_vars

\* The scheduler runs every thread that can run, and a thread waiting in
\* Lock gets the mutex: sync.Mutex hands a starving waiter the lock.
SpecLocksFair ==
    SpecLocks /\ \A t \in Threads : SF_vars(ThreadStep(t))

\* Thread t is about to read or write the field f.
Accesses(t, f) ==
    Running(t) /\ Instr(t).k \in {"read", "write"} /\ Instr(t).x = f

GuardedFields == {"nodeMap", "clusterSize", "lostQuorumTs"}

\* Every access of a guarded field is made by a thread holding the store lock.
HeldWhenAccessed ==
    \A t \in Threads, f \in GuardedFields :
        Accesses(t, f) => holder["storeLock"] = t

\* C18: every read and every write of nodeMap, clusterSize and lostQuorumTs
\* is made under the store lock, so that in no interleaving of store
\* operations does a read or a write of one of these fields overlap a write
\* of it by another thread.
C18_NoOverlappingWrite ==
    \A t, u \in Threads, f \in GuardedFields :
        (t # u /\ Accesses(t, f) /\ Accesses(u, f)) =>
            (Instr(t).k = "read" /\ Instr(u).k = "read")

\* No thread is about to take the store lock while it holds the
\* failure-domain lock.
LockOrder ==
    \A t \in Threads :
        (Running(t) /\ Instr(t) = Lock("storeLock")) =>
            holder["failureDomainsMapLock"] # t

\* A thread that is in no operation holds no lock.
LocksReleased ==
    \A t \in Threads :
        pc[t].op = "idle" => \A l \in DOMAIN holder : holder[l] # t

\* C19: no thread acquires the store lock while holding the failure-domain
\* lock, every operation releases every lock it acquired, and under fair
\* scheduling every started operation runs to completion.
C19_LockOrderAndProgress ==
    /\ [](LockOrder /\ LocksReleased)
    /\ \A t \in Threads : (pc[t].op # "idle") ~> (pc[t].op = "idle")

\* One thread is inside updateCluster with both locks while another waits
\* for the failure-domain lock.
C19_Witness ==
    \E t, u \in Threads :
        /\ t # u
        /\ pc[t].op = "updateCluster"
        /\ holder["storeLock"] = t
        /\ holder["failureDomainsMapLock"] = t
        /\ pc[u].op = "getNodesFromClusterDomain"
        /\ Running(u)
        /\ Instr(u) = Lock("failureDomainsMapLock")

\* ---------------------------------------------------------------------------
\* The quorum evaluator.

\* The members of the cluster the evaluator is run on.
QuorumNodeIds == {"A", "B", "C"}

\* The evaluator's configuration: the failure-domain policy, the number of
\* domains the policy "span" requires, and the quorum-loss grace period.
Policies == {"none", "span"}
RequiredDomains == 2
QuorumLossGrace == 1

\* up = |{p : p.status = UP /\ p.quorumMember}|, self counting as UP.
UpQuorumMembers(nm) ==
    {p \in DOMAIN nm :
        nm[p].QuorumMember /\ (nm[p].Status = NODE_STATUS_UP \/ p = selfId)}

\* The UP quorum members span the number of domains the policy requires.
PolicySatisfied(policy, nm) ==
    \/ policy = "none"
    \/ Cardinality({nm[p].ClusterDomain : p \in UpQuorumMembers(nm)})
           >= RequiredDomains

\* The node is NOT_IN_QUORUM and the grace period since lostQuorumTs has not
\* elapsed; a zero lostQuorumTs means quorum was never lost.
GraceRunning(current, lostTs, t) ==
    /\ current = NODE_STATUS_NOT_IN_QUORUM
    /\ lostTs # ZeroTime
    /\ t - lostTs < QuorumLossGrace

\* The evaluator without the grace period.
quorumStatusUndebounced(nm, size, lostTs, t, policy) ==
    IF Cardinality(UpQuorumMembers(nm)) > size \div 2
       /\ PolicySatisfied(policy, nm)
    THEN NODE_STATUS_UP
    ELSE NODE_STATUS_NOT_IN_QUORUM

\* The evaluator counting every quorum member, whatever its status.
quorumStatusCountingAll(nm, size, lostTs, t, policy) ==
    IF Cardinality({p \in DOMAIN nm : nm[p].QuorumMember}) > size \div 2
       /\ PolicySatisfied(policy, nm)
       /\ ~GraceRunning(Lookup(nm, selfId).Status, lostTs, t)
    THEN NODE_STATUS_UP
    ELSE NODE_STATUS_NOT_IN_QUORUM

\* The desired self status.
quorumStatus(nm, size, lostTs, t, policy) ==
    IF Cardinality(UpQuorumMembers(nm)) > size \div 2
       /\ PolicySatisfied(policy, nm)
       /\ ~GraceRunning(Lookup(nm, selfId).Status, lostTs, t)
    THEN NODE_STATUS_UP
    ELSE NODE_STATUS_NOT_IN_QUORUM

\* The evaluation as it would be if every NOT_IN_QUORUM result stamped
\* lostQuorumTs.
EvaluateQuorumRestamping(policy) ==
    /\ ~panicked
    /\ LET current == Lookup(nodeMap, selfId).Status
           desired == quorumStatus(nodeMap, clusterSize, lostQuorumTs, now, policy)
       IN /\ lostQuorumTs' =
                IF desired = NODE_STATUS_NOT_IN_QUORUM
                THEN now ELSE lostQuorumTs
          /\ nodeMap' =
                IF desired # current /\ selfId \in DOMAIN nodeMap
                THEN [nodeMap EXCEPT ![selfId].Status = desired,
                                     ![selfId].LastUpdateTs = now]
                ELSE nodeMap
          /\ last' = [Called("EvaluateQuorum", selfId, TRUE)
                        EXCEPT !.arg = policy, !.val = now, !.ret = desired]
    /\ pre' = Store
    /\ selfTsHigh' = High(selfTsHigh, nodeMap')
    /\ UNCHANGED <<clusterSize, failureDomainsMap, selfCorrect, now, panicked,
                   nOps, snap, pc, holder, api>>

\* One evaluation: the desired status is computed from the store; on a
\* change it is written with UpdateSelfStatus, after UpdateLostQuorumTs when
\* the change is from UP to NOT_IN_QUORUM.
EvaluateQuorum(policy) ==
    /\ ~panicked
    /\ LET current == Lookup(nodeMap, selfId).Status
           desired == quorumStatus(nodeMap, clusterSize, lostQuorumTs, now, policy)
       IN /\ lostQuorumTs' =
                IF current = NODE_STATUS_UP /\ desired = NODE_STATUS_NOT_IN_QUORUM
                THEN now ELSE lostQuorumTs
          /\ nodeMap' =
                IF desired # current /\ selfId \in DOMAIN nodeMap
                THEN [nodeMap EXCEPT ![selfId].Status = desired,
                                     ![selfId].LastUpdateTs = now]
                ELSE nodeMap
          /\ last' = [Called("EvaluateQuorum", selfId, TRUE)
                        EXCEPT !.arg = policy, !.val = now, !.ret = desired]
    /\ pre' = Store
    /\ selfTsHigh' = High(selfTsHigh, nodeMap')
    /\ UNCHANGED <<clusterSize, failureDomainsMap, selfCorrect, now, panicked,
                   nOps, snap, pc, holder, api>>

\* The peer maps the cluster was formed from: self is a quorum member of
\* the configured domain.
QuorumPeerMaps ==
    {P \in UNION {[ids -> NodeUpdates] :
                     ids \in {I \in SUBSET QuorumNodeIds : selfId \in I}} :
        P[selfId] = [QuorumMember |-> TRUE, ClusterDomain |-> selfClusterDomain,
                     Addr |-> "addr"]}

\* The store after NewGossipStore, updateCluster(P) and the status
\* notifications for the peers.
InitFrom(peerMaps) ==
    /\ now \in 1..MaxTime
    /\ \E P \in peerMaps :
       \E up \in SUBSET ((DOMAIN P) \ {selfId}) :
          LET first == [x \in {selfId} |->
                          [Id |-> selfId, GenNumber |-> 0,
                           LastUpdateTs |-> now, WaitForGenUpdateTs |-> ZeroTime,
                           Status |-> NODE_STATUS_NOT_IN_QUORUM,
                           Value |-> EmptyValue, QuorumMember |-> FALSE,
                           ClusterDomain |-> selfClusterDomain, Addr |-> ""]]
              r == updateCluster(first, <<>>, P, now)
          IN /\ nodeMap = [id \in DOMAIN r.nodeMap |->
                             IF id \in up
                             THEN [r.nodeMap[id] EXCEPT !.Status = NODE_STATUS_UP]
                             ELSE r.nodeMap[id]]
             /\ clusterSize = r.clusterSize
             /\ failureDomainsMap = r.failureDomainsMap
    /\ selfCorrect = FALSE
    /\ panicked = FALSE
    /\ nOps = 0
    /\ lostQuorumTs = ZeroTime
    /\ last = NoCall
    /\ pre = Store
    /\ selfTsHigh = now
    /\ snap = NoSnapshot
    /\ pc = IdleThreads
    /\ holder = FreeLocks
    /\ api = NoRouter

InitQuorum == InitFrom(QuorumPeerMaps)

NextQuorum ==
    \/ Tick
    \/ \E nodeId \in QuorumNodeIds \ {selfId}, status \in CallStatuses :
            UpdateNodeStatus(nodeId, status)
    \/ \E policy \in Policies : EvaluateQuorum(policy)

SpecQuorum == InitQuorum /\ [][NextQuorum]_vars

\* The evaluator among the other operations of the store, on a cluster of
\* the two nodes of NodeIds.
InitQuorumOps == InitFrom({P \in QuorumPeerMaps : DOMAIN P \subseteq NodeIds})

NextQuorumOps ==
    \/ Tick
    \/ \E policy \in Policies : EvaluateQuorum(policy)
    \/ \E nodeId \in NodeIds \ {selfId}, status \in CallStatuses :
            UpdateNodeStatus(nodeId, status)
    \/ \E key \in {"k"}, val \in {7} : UpdateSelf(key, val)
    \/ \E id \in NodeIds, status \in {NODE_STATUS_UP}, quorumMember \in {TRUE},
          failureDomain \in {selfClusterDomain} :
            AddNode(id, status, quorumMember, failureDomain)
    \/ \E id \in NodeIds : RemoveNode(id)
    \/ \E diff \in {d \in Diffs : DOMAIN d = NodeIds \ {selfId}} : Update(diff)
    \/ \E peers \in {P \in PeerMaps :
                        \A id \in DOMAIN P :
                            P[id].QuorumMember
                            /\ P[id].ClusterDomain = selfClusterDomain} :
            UpdateCluster(peers)

SpecQuorumOps == InitQuorumOps /\ [][NextQuorumOps]_vars

\* C21: the evaluator returns UP exactly when the entries with status UP and
\* quorumMember = true (self counted as UP) are more than half of
\* clusterSize, the failure-domain policy is satisfied and no quorum-loss
\* grace period is running; otherwise it returns NOT_IN_QUORUM.
C21_QuorumRule ==
    last.op = "EvaluateQuorum" =>
        LET nm == pre.nodeMap
            up == Cardinality({p \in DOMAIN nm :
                                  /\ nm[p].QuorumMember
                                  /\ nm[p].Status = NODE_STATUS_UP \/ p = selfId})
        IN /\ last.ret \in {NODE_STATUS_UP, NODE_STATUS_NOT_IN_QUORUM}
           /\ last.ret = NODE_STATUS_UP <=>
                 /\ 2 * up > pre.clusterSize
                 /\ PolicySatisfied(last.arg, nm)
                 /\ ~GraceRunning(Lookup(nm, selfId).Status, pre.lostQuorumTs,
                                  last.val)

\* Cluster size 3, policy none, A and B up, C down: the evaluator returns UP.
C21_Witness ==
    /\ last.op = "EvaluateQuorum"
    /\ last.arg = "none"
    /\ pre.clusterSize = 3
    /\ DOMAIN pre.nodeMap = QuorumNodeIds
    /\ \A p \in QuorumNodeIds : pre.nodeMap[p].QuorumMember
    /\ pre.nodeMap["B"].Status = NODE_STATUS_UP
    /\ pre.nodeMap["C"].Status = NODE_STATUS_DOWN
    /\ last.ret = NODE_STATUS_UP

\* The count and the policy allow UP on the store the last evaluation read.
QuorumPredicate ==
    /\ 2 * Cardinality(UpQuorumMembers(pre.nodeMap)) > pre.clusterSize
    /\ PolicySatisfied(last.arg, pre.nodeMap)

\* C22: regaining quorum is debounced: while the node is NOT_IN_QUORUM and
\* less than the grace period has elapsed since lostQuorumTs the evaluator
\* returns NOT_IN_QUORUM, also when the UP quorum members are again more
\* than half of clusterSize; once the grace period has elapsed and the
\* predicate holds it returns UP.
C22_RegainDebounced ==
    (/\ last.op = "EvaluateQuorum"
     /\ Lookup(pre.nodeMap, selfId).Status = NODE_STATUS_NOT_IN_QUORUM
     /\ pre.lostQuorumTs # ZeroTime) =>
        /\ last.val - pre.lostQuorumTs < QuorumLossGrace =>
               last.ret = NODE_STATUS_NOT_IN_QUORUM
        /\ (last.val - pre.lostQuorumTs >= QuorumLossGrace /\ QuorumPredicate) =>
               last.ret = NODE_STATUS_UP

\* Quorum was lost, the peers are up again, and the evaluation made within
\* the grace period still returns NOT_IN_QUORUM.
C22_Witness ==
    /\ last.op = "EvaluateQuorum"
    /\ last.arg = "none"
    /\ Lookup(pre.nodeMap, selfId).Status = NODE_STATUS_NOT_IN_QUORUM
    /\ pre.lostQuorumTs # ZeroTime
    /\ last.val - pre.lostQuorumTs < QuorumLossGrace
    /\ QuorumPredicate
    /\ pre.clusterSize = 3
    /\ pre.nodeMap["B"].Status = NODE_STATUS_UP
    /\ last.ret = NODE_STATUS_NOT_IN_QUORUM

\* The self status goes from UP to NOT_IN_QUORUM in this step.
QuorumLost ==
    /\ Lookup(nodeMap, selfId).Status = NODE_STATUS_UP
    /\ Lookup(nodeMap', selfId).Status = NODE_STATUS_NOT_IN_QUORUM

gobStructOmittingEmpty(info) ==
    LET sent == {f \in DOMAIN info :
                    /\ info[f] # ZeroNodeInfo[f]
                    /\ f = "Value" => info[f].kv # <<>>}
    IN [f \in sent |->
          IF f = "Value"
          THEN [k \in DOMAIN info[f].kv |-> [type |-> "int", v |-> info[f].kv[k]]]
          ELSE info[f]]

\* One NodeInfo struct on the wire.
gobStruct(info) ==
    LET sent == {f \in DOMAIN info : info[f] # ZeroNodeInfo[f]}
    IN [f \in sent |->
          IF f = "Value"
          THEN [k \in DOMAIN info[f].kv |-> [type |-> "int", v |-> info[f].kv[k]]]
          ELSE info[f]]

\* enc.Encode(obj) for a NodeInfoMap.
convertToBytes(obj) == [id \in DOMAIN obj |-> gobStruct(obj[id])]

\* The decoder fills a zero NodeInfo with the fields it receives.
gobDecodeStruct(sent) ==
    [f \in DOMAIN ZeroNodeInfo |->
        IF f \notin DOMAIN sent THEN ZeroNodeInfo[f]
        ELSE IF f = "Value"
        THEN [isNil |-> FALSE, kv |-> [k \in DOMAIN sent[f] |-> sent[f][k].v]]
        ELSE sent[f]]

\* dec.Decode(msg) into an empty NodeInfoMap.
convertFromBytes(buf) == [id \in DOMAIN buf |-> gobDecodeStruct(buf[id])]

\* GetLocalStateInBytes: the snapshot, encoded.
GetLocalStateInBytes ==
    /\ ~panicked
    /\ last.op # "GetLocalStateInBytes"
    /\ last' = [Called("GetLocalStateInBytes", "", TRUE)
                  EXCEPT !.obj = getLocalState,
                         !.bytes = convertToBytes(getLocalState)]
    /\ pre' = Store
    /\ UNCHANGED <<nodeMap, clusterSize, failureDomainsMap, selfCorrect,
                   lostQuorumTs, now, panicked, nOps, selfTsHigh, snap, pc,
                   holder, api>>

\* A receiver decodes the bytes it was sent.
DecodeRemoteState ==
    /\ ~panicked
    /\ last.op = "GetLocalStateInBytes"
    /\ last' = [Called("convertFromBytes", "", TRUE)
                  EXCEPT !.obj = last.obj,
                         !.bytes = last.bytes,
                         !.diff = convertFromBytes(last.bytes)]
    /\ pre' = Store
    /\ UNCHANGED <<nodeMap, clusterSize, failureDomainsMap, selfCorrect,
                   lostQuorumTs, now, panicked, nOps, selfTsHigh, snap, pc,
                   holder, api>>

NextGob ==
    \/ Tick
    \/ updateSelfTs
    \/ \E key \in StoreKeys, val \in StoreVals : UpdateSelf(key, val)
    \/ \E id \in NodeIds, status \in CallStatuses, quorumMember \in BOOLEAN,
          failureDomain \in Domains :
            AddNode(id, status, quorumMember, failureDomain)
    \/ \E id \in NodeIds : RemoveNode(id)
    \/ \E diff \in WideDiffs : Update(diff)
    \/ GetLocalStateInBytes
    \/ DecodeRemoteState

SpecGob == Init /\ [][NextGob]_vars

APIVersion == "v1"
PairPath == "/pair"
PairValidatePath == "/validate"
PairTokenPath == "/pairtoken"
SchedPath == "/schedpolicy"
ObjectStorePath == "/objectstore"
UriCluster == "/config/cluster"
UriNode == "/config/node"
UriEnumerate == "/config/enumerate"

clusterVersion(route, version) == "/" \o version \o "/" \o route
clusterPath(route, version) == clusterVersion("cluster" \o route, version)
clusterSecretPath(route, version) == clusterPath("/secrets" \o route, version)
clusterPairPath(route, version) == clusterPath(PairPath \o route, version)

Route(verb, path, fn) == [verb |-> verb, path |-> path, fn |-> fn]

\* The routes that Routes() and SecureRoutes() have in common, in order,
\* without the first three.
CommonRoutes ==
    << Route("GET", clusterPath("/status", APIVersion), "status"),
       Route("GET", clusterPath("/peerstatus", APIVersion), "peerStatus"),
       Route("GET", clusterPath("/inspect/{id}", APIVersion), "inspect"),
       Route("DELETE", clusterPath("", APIVersion), "delete"),
       Route("DELETE", clusterPath("/{id}", APIVersion), "delete"),
       Route("PUT", clusterPath("/enablegossip", APIVersion), "enableGossip"),
       Route("PUT", clusterPath("/disablegossip", APIVersion), "disableGossip"),
       Route("PUT", clusterPath("/shutdown", APIVersion), "shutdown"),
       Route("PUT", clusterPath("/shutdown/{id}", APIVersion), "shutdown"),
       Route("GET", clusterPath("/alerts/{resource}", APIVersion),
             "enumerateAlerts"),
       Route("GET", "/cluster/versions", "versions"),
       Route("DELETE", clusterPath("/alerts/{resource}/{id}", APIVersion),
             "eraseAlert"),
       Route("PUT", clusterPairPath("", APIVersion), "createPair"),
       Route("POST", clusterPairPath("", APIVersion), "processPair"),
       Route("GET", clusterPairPath("", APIVersion), "enumeratePairs"),
       Route("GET", clusterPairPath("/{id}", APIVersion), "getPair"),
       Route("PUT", clusterPairPath("/{id}", APIVersion), "refreshPair"),
       Route("DELETE", clusterPairPath("/{id}", APIVersion), "deletePair"),
       Route("PUT", clusterPairPath(PairValidatePath \o "/{id}", APIVersion),
             "validatePair"),
       Route("GET", clusterPath(PairTokenPath, APIVersion), "getPairToken"),
       Route("GET", clusterPath(SchedPath, APIVersion), "schedPolicyEnumerate"),
       Route("GET", clusterPath(SchedPath \o "/{name}", APIVersion),
             "schedPolicyGet"),
       Route("POST", clusterPath(SchedPath, APIVersion), "schedPolicyCreate"),
       Route("PUT", clusterPath(SchedPath, APIVersion), "schedPolicyUpdate"),
       Route("DELETE", clusterPath(SchedPath \o "/{name}", APIVersion),
             "schedPolicyDelete"),
       Route("GET", clusterPath(ObjectStorePath, APIVersion),
             "objectStoreInspect"),
       Route("POST", clusterPath(ObjectStorePath, APIVersion),
             "objectStoreCreate"),
       Route("PUT", clusterPath(ObjectStorePath, APIVersion),
             "objectStoreUpdate"),
       Route("DELETE", clusterPath(ObjectStorePath \o "/delete", APIVersion),
             "objectStoreDelete"),
       Route("GET", clusterSecretPath("/verify", APIVersion),
             "secretLoginCheck"),
       Route("GET", clusterSecretPath("", APIVersion), "getSecret"),
       Route("PUT", clusterSecretPath("", APIVersion), "setSecret"),
       Route("GET", clusterSecretPath("/defaultsecretkey", APIVersion),
             "getDefaultSecretKey"),
       Route("PUT", clusterSecretPath("/defaultsecretkey", APIVersion),
             "setDefaultSecretKey"),
       Route("POST", clusterSecretPath("/login", APIVersion), "secretsLogin"),
       Route("GET", clusterPath(UriCluster, APIVersion), "getClusterConf"),
       Route("GET", clusterPath(UriNode \o "/{id}", APIVersion), "getNodeConf"),
       Route("GET", clusterPath(UriEnumerate, APIVersion), "enumerateConf"),
       Route("POST", clusterPath(UriCluster, APIVersion), "setClusterConf"),
       Route("POST", clusterPath(UriNode, APIVersion), "setNodeConf"),
       Route("DELETE", clusterPath(UriNode \o "/{id}", APIVersion),
             "delNodeConf"),
       Route("GET", clusterPath("/getnodeidfromip/{idip}", APIVersion),
             "getNodeIdFromIp") >>

FirstRoutes ==
    << Route("GET", clusterPath("/enumerate", APIVersion), "enumerate"),
       Route("GET", clusterPath("/gossipstate", APIVersion), "gossipState"),
       Route("GET", clusterPath("/nodestatus", APIVersion), "nodeStatus") >>

\* Routes(): every route the cluster API serves.
Routes ==
    FirstRoutes
    \o << Route("GET", clusterPath("/nodehealth", APIVersion), "nodeHealth") >>
    \o CommonRoutes

\* SecureRoutes(): the routes that are to be secured.
SecureRoutes == FirstRoutes \o CommonRoutes

\* The key of routeMap: route.GetPath() + route.GetVerb().
RouteKey(route) == route.path \o route.verb

\* The set-up as it would be without the loop that takes the secured routes
\* out of routeMap.
deleteRouteKept(routeMap, route) == routeMap

\* routeMap[key] = route.
putRoute(routeMap, route) ==
    [k \in (DOMAIN routeMap) \cup {RouteKey(route)} |->
        IF k = RouteKey(route) THEN route ELSE routeMap[k]]

\* delete(routeMap, key).
deleteRoute(routeMap, route) ==
    [k \in (DOMAIN routeMap) \ {RouteKey(route)} |-> routeMap[k]]

\* router.Methods(verb).Path(path).HandlerFunc(fn), fn wrapped by the
\* security middleware or not.
Registration(route, secured) ==
    [verb |-> route.verb, path |-> route.path, fn |-> route.fn,
     secured |-> secured]

StoreUntouched ==
    UNCHANGED <<nodeMap, clusterSize, failureDomainsMap, selfCorrect,
                lostQuorumTs, now, panicked, nOps, last, pre, selfTsHigh, snap,
                pc, holder>>

\* SetupRoutesWithAuth is called: secureRoutes, nonSecureRoutes and an empty
\* routeMap.
SetupRoutesWithAuth ==
    /\ api.step = "idle"
    /\ api' = [api EXCEPT !.step = "fill", !.i = 1]
    /\ StoreUntouched

\* Lines 43-45: one iteration of the loop that fills routeMap.
FillRouteMap ==
    /\ api.step = "fill"
    /\ api' = IF api.i <= Len(Routes)
              THEN [api EXCEPT !.routeMap = putRoute(@, Routes[api.i]),
                               !.i = @ + 1]
              ELSE [api EXCEPT !.step = "remove", !.i = 1]
    /\ StoreUntouched

\* Lines 47-49: one iteration of the loop that removes the secured routes.
RemoveSecured ==
    /\ api.step = "remove"
    /\ api' = IF api.i <= Len(SecureRoutes)
              THEN [api EXCEPT !.routeMap = deleteRoute(@, SecureRoutes[api.i]),
                               !.i = @ + 1]
              ELSE [api EXCEPT !.step = "secure", !.i = 1]
    /\ StoreUntouched

\* Lines 52-54: one iteration of the loop that registers the secured routes.
RegisterSecured ==
    /\ api.step = "secure"
    /\ api' = IF api.i <= Len(SecureRoutes)
              THEN [api EXCEPT
                      !.router = Append(@, Registration(SecureRoutes[api.i],
                                                        TRUE)),
                      !.i = @ + 1]
              ELSE [api EXCEPT !.step = "open", !.rest = DOMAIN api.routeMap]
    /\ StoreUntouched

\* Lines 57-59: one iteration of the loop over routeMap, in any order; the
\* function returns when no key is left.
RegisterOpen ==
    /\ api.step = "open"
    /\ \/ /\ api.rest = {}
          /\ api' = [api EXCEPT !.step = "done"]
       \/ \E key \in api.rest :
            api' = [api EXCEPT
                      !.router = Append(@, Registration(api.routeMap[key],
                                                        FALSE)),
                      !.rest = @ \ {key}]
    /\ StoreUntouched

NextRoutes ==
    \/ SetupRoutesWithAuth
    \/ FillRouteMap
    \/ RemoveSecured
    \/ RegisterSecured
    \/ RegisterOpen

SpecRoutes == Init /\ [][NextRoutes]_vars

\* The positions of the router's registrations of a (path, verb).
Registered(route) ==
    {n \in DOMAIN api.router :
        /\ api.router[n].path = route.path
        /\ api.router[n].verb = route.verb}

\* The (path, verb) of the route is among those of SecureRoutes().
IsSecureRoute(route) ==
    \E n \in DOMAIN SecureRoutes :
        /\ SecureRoutes[n].path = route.path
        /\ SecureRoutes[n].verb = route.verb

\* C25: after SetupRoutesWithAuth every (path, verb) of Routes() is
\* registered on the router exactly once, wrapped by the security middleware
\* if and only if SecureRoutes() has the same (path, verb); and no route of
\* SecureRoutes() is registered with an unwrapped handler, nor any route
\* twice, at any point of the set-up.
C25_RoutesRegisteredOnce ==
    /\ \A n \in DOMAIN SecureRoutes :
          \A r \in Registered(SecureRoutes[n]) : api.router[r].secured
    /\ \A n \in DOMAIN Routes : Cardinality(Registered(Routes[n])) <= 1
    /\ api.step = "done" =>
          \A n \in DOMAIN Routes :
              /\ Cardinality(Registered(Routes[n])) = 1
              /\ \A r \in Registered(Routes[n]) :
                    api.router[r].secured <=> IsSecureRoute(Routes[n])

\* The set-up has returned, with a wrapped and an unwrapped registration.
C25_Witness ==
    /\ api.step = "done"
    /\ \E r \in DOMAIN api.router : api.router[r].secured
    /\ \E r \in DOMAIN api.router : ~api.router[r].secured

\* ---------------------------------------------------------------------------
\* Update, field by field.

\* The ids for which the last Update adopted the remote record: known peers
\* whose local status was not valid or whose local timestamp was older.
AdoptedIds ==
    {id \in ((DOMAIN last.diff) \cap (DOMAIN pre.nodeMap)) \ {selfId} :
        \/ pre.nodeMap[id].Status \in {NODE_STATUS_INVALID,
                                       NODE_STATUS_NEVER_GOSSIPED}
        \/ pre.nodeMap[id].LastUpdateTs < last.diff[id].LastUpdateTs}

\* C27: when Update adopts a remote record for a known peer, the stored
\* entry has the remote's genNumber, lastUpdateTs, waitForGenUpdateTs, value,
\* quorumMember, clusterDomain and addr, and the status the entry had before
\* the merge.
C27_AdoptedFields ==
    last.op = "Update" =>
        \A id \in AdoptedIds :
            /\ id \in DOMAIN nodeMap
            /\ nodeMap[id].Id = last.diff[id].Id
            /\ nodeMap[id].GenNumber = last.diff[id].GenNumber
            /\ nodeMap[id].LastUpdateTs = last.diff[id].LastUpdateTs
            /\ nodeMap[id].WaitForGenUpdateTs = last.diff[id].WaitForGenUpdateTs
            /\ nodeMap[id].Value = last.diff[id].Value
            /\ nodeMap[id].QuorumMember = last.diff[id].QuorumMember
            /\ nodeMap[id].ClusterDomain = last.diff[id].ClusterDomain
            /\ nodeMap[id].Addr = last.diff[id].Addr
            /\ nodeMap[id].Status = pre.nodeMap[id].Status

\* Update adopted a record that differs from the local entry in its status,
\* its value and its other fields.
C27_Witness ==
    /\ last.op = "Update"
    /\ \E id \in AdoptedIds :
          /\ pre.nodeMap[id].Status = NODE_STATUS_UP
          /\ last.diff[id].Status # NODE_STATUS_UP
          /\ pre.nodeMap[id].Value # last.diff[id].Value
          /\ pre.nodeMap[id].GenNumber # last.diff[id].GenNumber
          /\ pre.nodeMap[id].ClusterDomain # last.diff[id].ClusterDomain

\* ---------------------------------------------------------------------------
\* The two ways a store is constructed.

\* A GossipStoreImpl on which InitStore was called directly, with the status
\* the caller chose: selfCorrect stays true.
InitStore ==
    /\ now \in 1..MaxTime
    /\ \E status \in {NODE_STATUS_NOT_IN_QUORUM, NODE_STATUS_UP} :
          nodeMap = [x \in {selfId} |->
                       [Id |-> selfId, GenNumber |-> 0,
                        LastUpdateTs |-> now, WaitForGenUpdateTs |-> ZeroTime,
                        Status |-> status,
                        Value |-> EmptyValue, QuorumMember |-> FALSE,
                        ClusterDomain |-> selfClusterDomain, Addr |-> ""]]
    /\ clusterSize = 0
    /\ failureDomainsMap = <<>>
    /\ selfCorrect = TRUE
    /\ panicked = FALSE
    /\ nOps = 0
    /\ lostQuorumTs = ZeroTime
    /\ last = NoCall
    /\ pre = Store
    /\ selfTsHigh = now
    /\ snap = NoSnapshot
    /\ pc = IdleThreads
    /\ holder = FreeLocks
    /\ api = NoRouter

\* NewGossipStore or InitStore.
InitConstructed == Init \/ InitStore

\* Diffs in which the record of this node, like that of a peer, has any
\* timestamp and status.
SelfDiffs ==
    UNION {{d \in [ids -> UNION {RemoteInfos(id) : id \in ids}] :
              \A id \in ids : d[id].Id = id}
           : ids \in SUBSET NodeIds}

NextConstructed ==
    \/ Tick
    \/ updateSelfTs
    \/ \E id \in NodeIds, status \in CallStatuses, quorumMember \in BOOLEAN,
          failureDomain \in Domains :
            AddNode(id, status, quorumMember, failureDomain)
    \/ \E id \in NodeIds : RemoveNode(id)
    \/ \E diff \in SelfDiffs : Update(diff)

SpecConstructed == InitConstructed /\ [][NextConstructed]_vars

\* C28: Update(diff) never changes nodeMap[selfId]: an entry for selfId in
\* diff is ignored whatever its timestamp, and a self entry that is absent
\* stays absent, whether selfCorrect is true or false.
C28_UpdateLeavesSelf ==
    last.op = "Update" =>
        /\ (selfId \in DOMAIN nodeMap) <=> (selfId \in DOMAIN pre.nodeMap)
        /\ selfId \in DOMAIN nodeMap => nodeMap[selfId] = pre.nodeMap[selfId]

\* After InitStore, with the self entry removed, an Update came with a
\* record for selfId.
C28_Witness ==
    /\ last.op = "Update"
    /\ selfCorrect
    /\ selfId \notin DOMAIN pre.nodeMap
    /\ selfId \in DOMAIN last.diff

\* ---------------------------------------------------------------------------
\* updateCluster, entry by entry.

\* C29: every id of the peer map P that was not in nodeMap before
\* updateCluster(P) is present afterwards with status DOWN, an empty value
\* map, genNumber 0 and the quorumMember, clusterDomain and addr of P[id];
\* every id present before and after keeps its status, value and genNumber
\* and has the quorumMember, clusterDomain and addr of P[id].
C29_AddedAndRefreshed ==
    last.op = "updateCluster" =>
        /\ \A id \in (DOMAIN last.peers) \ (DOMAIN pre.nodeMap) :
              /\ id \in DOMAIN nodeMap
              /\ nodeMap[id].Status = NODE_STATUS_DOWN
              /\ nodeMap[id].Value = EmptyValue
              /\ nodeMap[id].GenNumber = 0
              /\ nodeMap[id].QuorumMember = last.peers[id].QuorumMember
              /\ nodeMap[id].ClusterDomain = last.peers[id].ClusterDomain
              /\ nodeMap[id].Addr = last.peers[id].Addr
        /\ \A id \in (DOMAIN pre.nodeMap) \cap (DOMAIN nodeMap) :
              /\ id \in DOMAIN last.peers
              /\ nodeMap[id].Status = pre.nodeMap[id].Status
              /\ nodeMap[id].Value = pre.nodeMap[id].Value
              /\ nodeMap[id].GenNumber = pre.nodeMap[id].GenNumber
              /\ nodeMap[id].QuorumMember = last.peers[id].QuorumMember
              /\ nodeMap[id].ClusterDomain = last.peers[id].ClusterDomain
              /\ nodeMap[id].Addr = last.peers[id].Addr

\* updateCluster added an id and refreshed a known entry that had a value,
\* another clusterDomain and another addr than the peer map gives.
C29_Witness ==
    /\ last.op = "updateCluster"
    /\ (DOMAIN last.peers) \ (DOMAIN pre.nodeMap) # {}
    /\ \E id \in (DOMAIN pre.nodeMap) \cap (DOMAIN nodeMap) :
          /\ pre.nodeMap[id].Value # EmptyValue
          /\ pre.nodeMap[id].ClusterDomain # nodeMap[id].ClusterDomain
          /\ pre.nodeMap[id].QuorumMember # nodeMap[id].QuorumMember
          /\ pre.nodeMap[id].Addr # nodeMap[id].Addr

\* The quorum members of nodeMap in domain d.
QuorumMembersIn(d) ==
    {id \in DOMAIN nodeMap :
        nodeMap[id].QuorumMember /\ nodeMap[id].ClusterDomain = d}

RECURSIVE SumOf(_)
SumOf(counts) ==
    IF DOMAIN counts = {} THEN 0
    ELSE LET d == CHOOSE x \in DOMAIN counts : TRUE
         IN counts[d] + SumOf([x \in (DOMAIN counts) \ {d} |-> counts[x]])

\* C30: the map returned by updateCluster(P) gives, for every domain label
\* d, the number of entries of the nodeMap after the call with quorumMember
\* true and clusterDomain d; a domain without a quorum member is not a key
\* of the map, and the counts sum to the number of quorum members of nodeMap.
C30_QuorumMembersCounted ==
    last.op = "updateCluster" =>
        /\ DOMAIN last.qmm =
              {nodeMap[id].ClusterDomain :
                  id \in {x \in DOMAIN nodeMap : nodeMap[x].QuorumMember}}
        /\ \A d \in DOMAIN last.qmm :
              last.qmm[d] = Cardinality(QuorumMembersIn(d))
        /\ SumOf(last.qmm) =
              Cardinality({id \in DOMAIN nodeMap : nodeMap[id].QuorumMember})

\* updateCluster returned a count for a quorum member whose domain it had
\* just changed, with an entry in nodeMap that is no quorum member.
C30_Witness ==
    /\ last.op = "updateCluster"
    /\ \E id \in (DOMAIN nodeMap) \cap (DOMAIN pre.nodeMap) :
          /\ nodeMap[id].QuorumMember
          /\ nodeMap[id].ClusterDomain # pre.nodeMap[id].ClusterDomain
          /\ last.qmm[nodeMap[id].ClusterDomain] = 1
    /\ \E id \in DOMAIN nodeMap : ~nodeMap[id].QuorumMember

\* ---------------------------------------------------------------------------
\* Timestamps of the entries.

\* The operations that write a NodeInfo entry of the store.
EntryWrites ==
    {"UpdateSelf", "UpdateNodeStatus", "updateSelfClusterDomain", "AddNode",
     "updateCluster"}

\* C31: every store write that changes a field of a NodeInfo entry
\* (UpdateSelf, UpdateNodeStatus, updateSelfClusterDomain, AddNode, the
\* refresh of updateCluster) sets the lastUpdateTs of that entry to the time
\* of the call.
C31_WritesStampEntry ==
    [][(nOps' = nOps + 1 /\ last'.op \in EntryWrites) =>
          \A id \in DOMAIN nodeMap' :
              (id \notin DOMAIN nodeMap \/ nodeMap'[id] # nodeMap[id]) =>
                  nodeMap'[id].LastUpdateTs = now]_vars

\* C32: for every id, as long as its entry stays in nodeMap, lastUpdateTs
\* never decreases across an operation, an Update on a peer whose local
\* status is INVALID or NEVER_GOSSIPED included.
C32_EntryTsNeverDecreases ==
    [][\A id \in (DOMAIN nodeMap) \cap (DOMAIN nodeMap') :
          nodeMap'[id].LastUpdateTs >= nodeMap[id].LastUpdateTs]_vars

\* ---------------------------------------------------------------------------
\* Concurrent UpdateSelf calls, statement by statement (lines 97-105).  A
\* thread's pc holds the arguments of its call and its local nodeInfo.  The
\* Value of a local nodeInfo is the map the self entry holds, a Go map being
\* a reference, so the content of that map is read from nodeMap.

ThreadUnchanged ==
    UNCHANGED <<clusterSize, failureDomainsMap, selfCorrect, lostQuorumTs,
                now, panicked, nOps, snap, api>>

At(t, i) == pc[t].op = "UpdateSelf" /\ pc[t].i = i

Goto(t, i) == pc' = [pc EXCEPT ![t].i = i]

\* A caller's thread enters UpdateSelf(key, val).
CallUpdateSelf(t, key, val) ==
    /\ pc[t].op = "idle"
    /\ pc' = [pc EXCEPT ![t] = [op |-> "UpdateSelf", i |-> 1, key |-> key,
                                val |-> val, nodeInfo |-> ZeroNodeInfo]]
    /\ UNCHANGED <<nodeMap, last, pre, selfTsHigh, holder>>
    /\ ThreadUnchanged

\* s.Lock() as it would be if it did not wait for the holder.
LockStoreNoWait(t) ==
    /\ At(t, 1)
    /\ holder' = [holder EXCEPT !["storeLock"] = t]
    /\ Goto(t, 2)
    /\ UNCHANGED <<nodeMap, last, pre, selfTsHigh>>
    /\ ThreadUnchanged

\* s.Lock()
LockStore(t) ==
    /\ At(t, 1)
    /\ holder["storeLock"] = 0
    /\ holder' = [holder EXCEPT !["storeLock"] = t]
    /\ Goto(t, 2)
    /\ UNCHANGED <<nodeMap, last, pre, selfTsHigh>>
    /\ ThreadUnchanged

\* nodeInfo, _ := s.nodeMap[s.id]
ReadSelf(t) ==
    /\ At(t, 2)
    /\ pc' = [pc EXCEPT ![t].nodeInfo = Lookup(nodeMap, selfId), ![t].i = 3]
    /\ UNCHANGED <<nodeMap, last, pre, selfTsHigh, holder>>
    /\ ThreadUnchanged

\* nodeInfo.Value[key] = val: a write into the map of the self entry.
WriteValue(t) ==
    /\ At(t, 3)
    /\ LET kv == nodeMap[selfId].Value.kv IN
       nodeMap' = [nodeMap EXCEPT ![selfId].Value.kv =
                     [k \in (DOMAIN kv) \cup {pc[t].key} |->
                        IF k = pc[t].key THEN pc[t].val ELSE kv[k]]]
    /\ Goto(t, 4)
    /\ UNCHANGED <<last, pre, selfTsHigh, holder>>
    /\ ThreadUnchanged

\* nodeInfo.LastUpdateTs = time.Now()
StampSelf(t) ==
    /\ At(t, 4)
    /\ pc' = [pc EXCEPT ![t].nodeInfo.LastUpdateTs = now, ![t].i = 5]
    /\ UNCHANGED <<nodeMap, last, pre, selfTsHigh, holder>>
    /\ ThreadUnchanged

\* s.nodeMap[s.id] = nodeInfo
StoreSelf(t) ==
    /\ At(t, 5)
    /\ nodeMap' = Put(nodeMap, selfId,
                      [pc[t].nodeInfo EXCEPT !.Value = nodeMap[selfId].Value])
    /\ last' = [Called("UpdateSelf", selfId, TRUE)
                  EXCEPT !.arg = pc[t].key, !.val = pc[t].val]
    /\ pre' = Store
    /\ selfTsHigh' = High(selfTsHigh, nodeMap')
    /\ Goto(t, 6)
    /\ UNCHANGED holder
    /\ ThreadUnchanged

\* The deferred s.Unlock(), and the return to the caller.
UnlockStore(t) ==
    /\ At(t, 6)
    /\ holder' = [holder EXCEPT !["storeLock"] = 0]
    /\ pc' = [pc EXCEPT ![t] = [op |-> "done", i |-> 0, key |-> pc[t].key,
                                val |-> pc[t].val]]
    /\ UNCHANGED <<nodeMap, last, pre, selfTsHigh>>
    /\ ThreadUnchanged

NextUpdateSelf ==
    \/ Tick
    \/ \E t \in Threads, key \in StoreKeys, val \in StoreVals :
          CallUpdateSelf(t, key, val)
    \/ \E t \in Threads : LockStore(t)
    \/ \E t \in Threads : ReadSelf(t)
    \/ \E t \in Threads : WriteValue(t)
    \/ \E t \in Threads : StampSelf(t)
    \/ \E t \in Threads : StoreSelf(t)
    \/ \E t \in Threads : UnlockStore(t)

SpecUpdateSelf == Init /\ [][NextUpdateSelf]_vars

\* Every thread has made its call and returned.
AllReturned == \A t \in Threads : pc[t].op = "done"

\* The self value map is the one a sequence of the calls leaves: its keys
\* are the keys of the calls, each key has the value of a call for that key,
\* and the key of the call that stored last has that call's value.
SequentialOutcome ==
    LET kv == nodeMap[selfId].Value.kv IN
    /\ DOMAIN kv = {pc[t].key : t \in Threads}
    /\ \A k \in DOMAIN kv :
          kv[k] \in {pc[t].val : t \in {u \in Threads : pc[u].key = k}}
    /\ kv[last.arg] = last.val

\* C33: concurrent UpdateSelf calls are linearizable: in every interleaving
\* the final self value map is the one produced by a sequential order of the
\* calls, no update is lost, and the self lastUpdateTs after a later call is
\* not less than after an earlier one.
C33_UpdateSelfLinearizable ==
    /\ [](AllReturned => SequentialOutcome)
    /\ [][nodeMap'[selfId].LastUpdateTs >= nodeMap[selfId].LastUpdateTs]_vars

\* Two calls with different keys have both returned, and the clock moved
\* between them.
C33_Witness ==
    /\ AllReturned
    /\ \E t, u \in Threads : pc[t].key # pc[u].key
    /\ nodeMap[selfId].LastUpdateTs > pre.nodeMap[selfId].LastUpdateTs

\* ---------------------------------------------------------------------------
\* updateCluster against readers of the failure-domain index.  updateCluster
\* holds the store lock from its first statement to its return, and takes
\* the failure-domain lock inside each call of updateClusterDomainsMap, once
\* for every id of its last loop.  A reader takes the failure-domain lock
\* only and never looks at nodeMap, so the writes of nodeMap are modelled at
\* the start of the call.

IndexUnchanged ==
    UNCHANGED <<selfCorrect, lostQuorumTs, now, panicked, snap, api>>

\* updateCluster(peers) up to its last loop.
BeginUpdateCluster(t, peers) ==
    /\ Ready
    /\ pc[t].op \in {"idle", "returned"}
    /\ holder["storeLock"] = 0
    /\ holder' = [holder EXCEPT !["storeLock"] = t]
    /\ LET r == updateCluster(nodeMap, failureDomainsMap, peers, now) IN
       /\ nodeMap' = r.nodeMap
       /\ clusterSize' = r.clusterSize
       /\ pc' = [pc EXCEPT ![t] =
                    [op |-> "updateCluster", i |-> 0, peers |-> peers,
                     rest |-> (DOMAIN r.nodeMap) \cap (DOMAIN peers),
                     before |-> failureDomainsMap, seen |-> {}]]
    /\ last' = [Called("updateCluster", "", TRUE) EXCEPT !.peers = peers]
    /\ nOps' = nOps + 1
    /\ pre' = Store
    /\ selfTsHigh' = High(selfTsHigh, nodeMap')
    /\ UNCHANGED failureDomainsMap
    /\ IndexUnchanged

\* One iteration of the last loop: s.updateClusterDomainsMap(
\* update.ClusterDomain, id), the ids of nodeMap coming in any order.
IndexNode(t) ==
    /\ pc[t].op = "updateCluster"
    /\ \E id \in pc[t].rest :
          /\ failureDomainsMap' =
                updateClusterDomainsMap(failureDomainsMap,
                                        pc[t].peers[id].ClusterDomain, id)
          /\ pc' = [pc EXCEPT ![t].rest = @ \ {id}]
    /\ UNCHANGED <<nodeMap, clusterSize, nOps, last, pre, selfTsHigh, holder>>
    /\ IndexUnchanged

\* The loop is over: the deferred s.Unlock() and the return.
EndUpdateCluster(t) ==
    /\ pc[t].op = "updateCluster"
    /\ pc[t].rest = {}
    /\ holder' = [holder EXCEPT !["storeLock"] = 0]
    /\ pc' = [pc EXCEPT ![t] =
                 [op |-> "returned", i |-> 0, before |-> pc[t].before,
                  after |-> failureDomainsMap, seen |-> pc[t].seen]]
    /\ UNCHANGED <<nodeMap, clusterSize, failureDomainsMap, nOps, last, pre,
                   selfTsHigh>>
    /\ IndexUnchanged

\* A caller's getNodesFromClusterDomain(failureDomain), under the
\* failure-domain lock: it returns the bucket itself, a nodeIdMap, or nil.
\* last.obj is what the returned map held when it was returned, last.ok
\* whether a bucket was returned; a running updateCluster notes what its
\* first reader saw.
GetNodesFromClusterDomain(failureDomain) ==
    /\ ~panicked
    /\ last' = [Called("getNodesFromClusterDomain", "",
                       failureDomain \in DOMAIN failureDomainsMap)
                  EXCEPT !.arg = failureDomain,
                         !.obj = getNodesFromClusterDomain(failureDomainsMap,
                                                           failureDomain)]
    /\ pc' = [t \in Threads |->
                IF pc[t].op = "updateCluster" /\ pc[t].seen = {}
                THEN [pc[t] EXCEPT !.seen = @ \cup
                        {[d |-> failureDomain,
                          ids |-> getNodesFromClusterDomain(failureDomainsMap,
                                                            failureDomain)]}]
                ELSE pc[t]]
    /\ UNCHANGED <<nodeMap, clusterSize, failureDomainsMap, nOps, pre,
                   selfTsHigh, holder>>
    /\ IndexUnchanged

\* The peer maps of the calls: the index does not depend on quorumMember.
IndexPeerMaps == {peers \in PeerMaps : \A id \in DOMAIN peers : peers[id].QuorumMember}

NextIndex ==
    \/ \E t \in Threads, peers \in IndexPeerMaps : BeginUpdateCluster(t, peers)
    \/ \E t \in Threads : IndexNode(t)
    \/ \E t \in Threads : EndUpdateCluster(t)
    \/ \E failureDomain \in Domains : GetNodesFromClusterDomain(failureDomain)

SpecIndex == Init /\ [][NextIndex]_vars

\* C34: a reader of the failure-domain index never observes a partial
\* reconciliation: what getNodesFromClusterDomain(d) returns while
\* updateCluster(P) runs is bucket d as it was before the call or as it is
\* after it, and a set that was returned is not changed by later
\* updateCluster calls.
C34_ReaderSeesWholeCalls ==
    /\ \A t \in Threads :
          pc[t].op = "returned" =>
              \A s \in pc[t].seen :
                  \/ s.ids = getNodesFromClusterDomain(pc[t].before, s.d)
                  \/ s.ids = getNodesFromClusterDomain(pc[t].after, s.d)
    /\ (last.op = "getNodesFromClusterDomain" /\ last.ok) =>
          getNodesFromClusterDomain(failureDomainsMap, last.arg) = last.obj

\* ---------------------------------------------------------------------------
\* REST handlers of the cluster API that ask the cluster manager about a
\* node (api/server/cluster.go).  The manager is outside this code: what it
\* answers is an input, an unknown-node error being possible for an id that
\* nodeMap does not hold.

StatusOK == 200
StatusBadRequest == 400
StatusInternalServerError == 500

\* mux.Vars(r)["id"] or r.URL.Query()["name"]: absent, empty, or an id.
NoParam == "<none>"
RequestParams == {NoParam, ""} \cup QuorumNodeIds

\* What inst.Inspect(id) or inst.PeerStatus(id) may return.
ManagerOutcomes(id) ==
    IF id \in DOMAIN nodeMap THEN {"ok", "Error"} ELSE {"UnknownNode", "Error"}

\* The response of a handler: its status code, and the error of the
\* manager it reports.
Responded(op, id, code, err) ==
    /\ last' = [Called(op, id, code = StatusOK) EXCEPT !.val = code, !.ret = err]
    /\ UNCHANGED <<nodeMap, clusterSize, failureDomainsMap, selfCorrect,
                   lostQuorumTs, now, panicked, nOps, pre, selfTsHigh, snap,
                   pc, holder, api>>

\* clusterApi.inspect
inspect(instErr, id, outcome) ==
    IF instErr
    THEN Responded("inspect", id, StatusInternalServerError, "Inst")
    ELSE IF id = NoParam \/ id = ""
    THEN Responded("inspect", id, StatusBadRequest, "Missing id param")
    ELSE IF outcome # "ok"
    THEN Responded("inspect", id, StatusInternalServerError, outcome)
    ELSE Responded("inspect", id, StatusOK, "")

\* clusterApi.peerStatus
peerStatus(instErr, name, outcome) ==
    IF name = NoParam \/ name = ""
    THEN Responded("peerStatus", name, StatusBadRequest, "Missing id param")
    ELSE IF instErr
    THEN Responded("peerStatus", name, StatusInternalServerError, "Inst")
    ELSE IF outcome # "ok"
    THEN Responded("peerStatus", name, StatusInternalServerError, outcome)
    ELSE Responded("peerStatus", name, StatusOK, "")

NextRest ==
    \/ \E id \in NodeIds, status \in CallStatuses, quorumMember \in BOOLEAN,
          failureDomain \in Domains :
            AddNode(id, status, quorumMember, failureDomain)
    \/ \E id \in NodeIds : RemoveNode(id)
    \/ \E instErr \in BOOLEAN, id \in RequestParams :
          \E outcome \in ManagerOutcomes(id) : inspect(instErr, id, outcome)
    \/ \E instErr \in BOOLEAN, name \in RequestParams :
          \E outcome \in ManagerOutcomes(name) : peerStatus(instErr, name, outcome)

SpecRest == Init /\ [][NextRest]_vars

\* C35: the REST surface answers an unknown-node error with a 404-class
\* status and every other error of the manager with a 500-class status: an
\* inspect or peerstatus request for a node id the cluster does not know is
\* answered with a 4xx status, never with 500.
C35_UnknownNodeIsNotFound ==
    last.op \in {"inspect", "peerStatus"} =>
        /\ last.ret = "UnknownNode" => last.val \in 400..499
        /\ last.ret \in {"Error", "Inst"} => last.val \in 500..599

\* ---------------------------------------------------------------------------
\* clusterApi.enumerateAlerts (api/server/cluster.go, lines 532-583).

\* The values of a timestart or timeend parameter: absent, not in
\* api.TimeLayout, or a time written in that layout.
TimeParams == {NoParam, "yesterday"} \cup {ToString(t) : t \in 1..MaxTime}

\* time.Parse(api.TimeLayout, text)
ParseTime(text) ==
    IF \E t \in 1..MaxTime : ToString(t) = text
    THEN [err |-> FALSE, t |-> CHOOSE t \in 1..MaxTime : ToString(t) = text]
    ELSE [err |-> TRUE, t |-> ZeroTime]

\* The {resource} variable of the route: absent, a resource, or anything else.
ResourceParams == {NoParam, "Node", "pool"}

\* handleResourceType(resource), after strings.ToLower
handleResourceType(resource) ==
    IF resource = "Node"
    THEN [err |-> FALSE, type |-> "RESOURCE_TYPE_NODE"]
    ELSE [err |-> TRUE, type |-> "RESOURCE_TYPE_NONE"]

\* The handler has answered: the status code, the parameters it was called
\* with, and the arguments of its call of inst.EnumerateAlerts, if it made
\* one.
AlertsResponded(resource, timestart, timeend, instErr, code, call) ==
    /\ last' = [Called("enumerateAlerts", "", code = StatusOK)
                  EXCEPT !.val = code,
                         !.obj = [resource |-> resource, timestart |-> timestart,
                                  timeend |-> timeend, instErr |-> instErr],
                         !.bytes = call]
    /\ UNCHANGED <<nodeMap, clusterSize, failureDomainsMap, selfCorrect,
                   lostQuorumTs, now, panicked, nOps, pre, selfTsHigh, snap,
                   pc, holder, api>>

\* The handler as it would be if timeend were parsed into tE.
enumerateAlertsParsingEnd(resource, timestart, timeend, instErr, failed) ==
    LET resourceType == IF resource # NoParam
                        THEN handleResourceType(resource)
                        ELSE [err |-> FALSE, type |-> "RESOURCE_TYPE_NONE"]
        tS == IF timestart # NoParam THEN ParseTime(timestart)
              ELSE [err |-> FALSE, t |-> ZeroTime]
        tE == IF timeend # NoParam THEN ParseTime(timeend)
              ELSE [err |-> FALSE, t |-> ZeroTime]
        Answer(code, call) ==
            AlertsResponded(resource, timestart, timeend, instErr, code, call)
    IN IF resourceType.err THEN Answer(StatusBadRequest, <<>>)
       ELSE IF tS.err THEN Answer(StatusBadRequest, <<>>)
       ELSE IF tE.err THEN Answer(StatusBadRequest, <<>>)
       ELSE IF instErr THEN Answer(StatusInternalServerError, <<>>)
       ELSE Answer(IF failed THEN StatusInternalServerError ELSE StatusOK,
                   [tS |-> tS.t, tE |-> tE.t, resourceType |-> resourceType.type])

\* timeend is parsed into tS, the variable timestart was parsed into, and tE
\* keeps the zero time it was declared with.
enumerateAlerts(resource, timestart, timeend, instErr, failed) ==
    LET resourceType == IF resource # NoParam
                        THEN handleResourceType(resource)
                        ELSE [err |-> FALSE, type |-> "RESOURCE_TYPE_NONE"]
        tS1 == IF timestart # NoParam THEN ParseTime(timestart)
               ELSE [err |-> FALSE, t |-> ZeroTime]
        tS2 == IF timeend # NoParam THEN ParseTime(timeend) ELSE tS1
        tE == ZeroTime
        Answer(code, call) ==
            AlertsResponded(resource, timestart, timeend, instErr, code, call)
    IN IF resourceType.err THEN Answer(StatusBadRequest, <<>>)
       ELSE IF tS1.err THEN Answer(StatusBadRequest, <<>>)
       ELSE IF tS2.err THEN Answer(StatusBadRequest, <<>>)
       ELSE IF instErr THEN Answer(StatusInternalServerError, <<>>)
       ELSE Answer(IF failed THEN StatusInternalServerError ELSE StatusOK,
                   [tS |-> tS2.t, tE |-> tE, resourceType |-> resourceType.type])

NextAlerts ==
    \E resource \in ResourceParams, timestart \in TimeParams,
       timeend \in TimeParams, instErr \in BOOLEAN, failed \in BOOLEAN :
        enumerateAlerts(resource, timestart, timeend, instErr, failed)

SpecAlerts == Init /\ [][NextAlerts]_vars

\* C36: in enumerateAlerts a supplied timeend is parsed into the variable
\* of timestart: whenever timeend is present and valid (and the request gets
\* as far as the manager), EnumerateAlerts is called with its start time
\* equal to the parsed timeend, a parsed timestart being dropped, and with
\* its end time equal to the zero time.
C36_TimeEndParsedIntoStart ==
    (last.op = "enumerateAlerts" /\ last.obj.timeend # NoParam) =>
        /\ last.bytes # <<>> =>
              /\ last.bytes.tS = ParseTime(last.obj.timeend).t
              /\ last.bytes.tE = ZeroTime
        /\ last.bytes # <<>> <=>
              /\ ~ParseTime(last.obj.timeend).err
              /\ last.obj.timestart # NoParam =>
                    ~ParseTime(last.obj.timestart).err
              /\ last.obj.resource \in {NoParam, "Node"}
              /\ ~last.obj.instErr

\* EnumerateAlerts was called for a request with a valid timestart and a
\* valid, later timeend.
C36_Witness ==
    /\ last.op = "enumerateAlerts"
    /\ last.bytes # <<>>
    /\ last.obj.timestart # NoParam
    /\ last.obj.timeend # NoParam
    /\ ParseTime(last.obj.timestart).t < ParseTime(last.obj.timeend).t

\* ---------------------------------------------------------------------------
\* C37: the record stored under a key of nodeMap carries that key as its
\* id, nodeMap[k].Id = k for every k in nodeMap, after any sequence of
\* AddNode, RemoveNode, Update, updateCluster, updateSelfTs, UpdateSelf and
\* updateSelfClusterDomain; so MetaInfo().Id, the Id of the record under
\* s.id, is the id of this node.
C37_RecordCarriesItsKey ==
    \A k \in DOMAIN nodeMap : nodeMap[k].Id = k

\* ---------------------------------------------------------------------------
\* Update after Update (gossip_store.go, lines 298-320).

\* The record with the greatest lastUpdateTs of a set of records whose
\* timestamps are distinct.
Latest(infos) ==
    CHOOSE i \in infos : \A j \in infos : j.LastUpdateTs <= i.LastUpdateTs

\* The timestamps of the local entry of id and of the records of d1 and d2
\* for it are three distinct ones.
DistinctTs(local, d1, d2, id) ==
    Cardinality({local[id].LastUpdateTs, d1[id].LastUpdateTs,
                 d2[id].LastUpdateTs}) = 3

\* C38: Update is last-writer-wins and order-independent for peers of valid
\* status: after Update(d1) on a store that knows the peer with a valid
\* status, for every d2 whose record for the peer has a timestamp other than
\* d1's and the local one, Update(d2) leaves the entry that Update(d2);
\* Update(d1) would have left, the record with the greatest lastUpdateTs of
\* the three carrying the local status; and a second Update(d1) changes
\* nothing.
C38_LastWriterWins ==
    last.op = "Update" =>
        /\ nodeMap = Merge(pre.nodeMap, last.diff)
        /\ Merge(nodeMap, last.diff) = nodeMap
        /\ \A id \in (DOMAIN pre.nodeMap) \ {selfId}, d2 \in Diffs :
              (/\ statusValid(pre.nodeMap[id].Status)
               /\ id \in DOMAIN last.diff
               /\ id \in DOMAIN d2
               /\ DistinctTs(pre.nodeMap, last.diff, d2, id)) =>
                  /\ Merge(nodeMap, d2)[id] =
                        Merge(Merge(pre.nodeMap, d2), last.diff)[id]
                  /\ Merge(nodeMap, d2)[id] =
                        [Latest({pre.nodeMap[id], last.diff[id], d2[id]})
                           EXCEPT !.Status = pre.nodeMap[id].Status]

\* Update(d1) has run on a store that knows peer B with a valid status, d1's
\* record for B is older than the local entry, and some d2 has a newer one:
\* delivered in the other order, d1 meets the newer record.
C38_Witness ==
    /\ last.op = "Update"
    /\ "B" \in DOMAIN pre.nodeMap
    /\ statusValid(pre.nodeMap["B"].Status)
    /\ "B" \in DOMAIN last.diff
    /\ last.diff["B"].LastUpdateTs < pre.nodeMap["B"].LastUpdateTs
    /\ \E d2 \in Diffs :
          /\ "B" \in DOMAIN d2
          /\ pre.nodeMap["B"].LastUpdateTs < d2["B"].LastUpdateTs
          /\ Merge(nodeMap, d2)["B"].LastUpdateTs = d2["B"].LastUpdateTs

\* ---------------------------------------------------------------------------
\* AddNode (gossip_store.go, lines 206-244).

\* const INVALID_GEN_NUMBER
INVALID_GEN_NUMBER == 0

\* C39: AddNode(id, status, quorumMember, domain) on an id already in
\* nodeMap overwrites only the entry's status, quorumMember, clusterDomain
\* and lastUpdateTs and keeps its value map, genNumber and addr; on an id
\* not in nodeMap it creates an entry with an empty value map and the
\* invalid generation number; it changes no other entry and leaves
\* clusterSize and failureDomainsMap as they were.
C39_AddNodeFrame ==
    last.op = "AddNode" =>
        LET id == last.id
            call == last.obj
        IN /\ DOMAIN nodeMap = (DOMAIN pre.nodeMap) \cup {id}
           /\ \A x \in (DOMAIN pre.nodeMap) \ {id} :
                 nodeMap[x] = pre.nodeMap[x]
           /\ id \in DOMAIN pre.nodeMap =>
                 nodeMap[id] = [pre.nodeMap[id] EXCEPT
                                  !.Status = call.status,
                                  !.QuorumMember = call.quorumMember,
                                  !.ClusterDomain = call.failureDomain,
                                  !.LastUpdateTs = call.t]
           /\ id \notin DOMAIN pre.nodeMap =>
                 /\ nodeMap[id].Id = id
                 /\ nodeMap[id].Value = EmptyValue
                 /\ nodeMap[id].GenNumber = INVALID_GEN_NUMBER
                 /\ nodeMap[id].Status = call.status
                 /\ nodeMap[id].QuorumMember = call.quorumMember
                 /\ nodeMap[id].ClusterDomain = call.failureDomain
           /\ clusterSize = pre.clusterSize
           /\ failureDomainsMap = pre.failureDomainsMap

\* AddNode has run on an id whose entry held a value, with another status
\* than the entry had, and the value is still there.
C39_Witness ==
    /\ last.op = "AddNode"
    /\ last.id \in DOMAIN pre.nodeMap
    /\ pre.nodeMap[last.id].Value.kv # <<>>
    /\ nodeMap[last.id].Value = pre.nodeMap[last.id].Value
    /\ nodeMap[last.id].Status # pre.nodeMap[last.id].Status

====
